---- MODULE Spec2Model ----
(***************************************************************************)
(* Wattwise energy monitor: the real-time ingestion-and-fan-out core.      *)
(*                                                                         *)
(*   - the WebSocket hub (handlers/websocket_handler.go): runHub,          *)
(*     HandleConnection, BroadcastRealtimeData, BroadcastAlert;            *)
(*   - the MQTT subscriber (mqtt/subscriber.go, current revision):         *)
(*     handleEnergyMessage, updateDeviceStatus, checkDeviceStatus;         *)
(*   - the energy service (services/energy_service.go): SaveEnergyData,    *)
(*     CheckThresholdAlert;                                                *)
(*   - the time-series store (database/iotdb.go): InsertData.              *)
(*                                                                         *)
(* Spec       : the hub with its viewer sessions and broadcast callers.    *)
(* SpecFair   : Spec with the fairness of Go's select and scheduler.       *)
(* SpecIngest : the subscriber's pipeline, its liveness table and sweep,   *)
(*              in front of the hub's registration path.                   *)
(* SpecStatus : the liveness table with its readers GetDeviceStatus and    *)
(*              GetAllDeviceStatus.                                        *)
(* SpecSet    : the register and unregister cases of runHub applied to    *)
(*              arbitrary session sets.                                    *)
(* SpecLock   : the hub, its callers and GetConnectedClients step by step  *)
(*              through clientsMutex.                                      *)
(* SpecOrder  : the hub with every event numbered in the order it was      *)
(*              accepted and every write recorded per session.             *)
(* SpecTouch  : updateDeviceStatus called by concurrent goroutines for one  *)
(*              device, step by step under statusMutex.                    *)
(* SpecTouchSweep : SpecTouch with checkDeviceStatus taking statusMutex    *)
(*              and sweeping step by step beside the callers.              *)
(* SpecGate   : SpecLock with the eviction goroutines of failed writes and  *)
(*              a bounded number of queued events.                         *)
(* SpecOrderFair : SpecOrder with the fairness of the hub's select, of      *)
(*              returning writes and of reads on a closed connection.      *)
(* SpecSweep  : the subscriber with a sweep goroutine that handles each    *)
(*              tick within a bounded delay; SpecSweepFair adds that time  *)
(*              passes and the goroutine keeps running.                    *)
(* SpecClient : the browser's EnergyWebSocket (view/js/websocket.js) with   *)
(*              its sockets, its reconnect timers and its user's calls.    *)
(* SpecInsert : InsertData applied to the answers its session can give.    *)
(* SpecWrite  : Spec with the handler's greeting write in two steps, its   *)
(*              call and its return.                                       *)
(* SpecEval   : CheckThresholdAlert applied to a grid of readings.         *)
(***************************************************************************)
EXTENDS Integers, Sequences, FiniteSets, TLC

\* ------------------------------------------------------------------ bounds
\* Number of viewer connections (one HandleConnection call each).
NumConns == 2
\* Number of goroutines calling BroadcastRealtimeData / BroadcastAlert.
NumCallers == 1
\* Cap on the eviction goroutines (go func(c){h.unregister <- c}) pending per
\* connection; the code itself puts no limit on them.
MaxEvictors == 2
\* Accepted events are labelled 0..SeqMod-1 cyclically in acceptance order.
SeqMod == 2

\* Number of MQTT messages delivered to handleEnergyMessage.
MaxMsgs == 2
\* The clock runs for MaxTicks sweep intervals, and up to MaxJitterMs
\* single milliseconds past each multiple of the interval.
MaxTicks == 3
MaxJitterMs == 1
\* Register and unregister requests applied in a row to one session set.
MaxOps == 3
\* Events accepted into the broadcast queue while writes are recorded.
MaxEvents == 3
\* Sockets of one EnergyWebSocket that are alive at a time.
MaxSockets == 2
\* Reconnect timers of one EnergyWebSocket that are pending at a time.
MaxTimers == 2
\* Goroutines that call updateDeviceStatus for the same device.
NumTouchers == 2

\* -------------------------------------------------------- program constants
\* make(chan interface{}, 100)
BroadcastCap == 100
\* now-status.LastSeen > 60000
StaleWindowMs == 60000
\* time.NewTicker(30 * time.Second) in checkDeviceStatus
SweepIntervalMs == 30000
\* CheckThresholdAlert: maxPower, maxCurrent, minVoltage, maxVoltage
maxPower == 2200
maxCurrent == 10
minVoltage == 200
maxVoltage == 240

Conns == 1..NumConns
Callers == 1..NumCallers
Touchers == 1..NumTouchers

VARIABLES
    \* ---- WebSocketHandler
    clients,      \* h.clients: the set of registered connections
    broadcast,    \* h.broadcast: the buffered channel, as a FIFO sequence
    hubPc,        \* runHub: "select" | "range" (inside the broadcast case,
                  \*         RLock held) | "write" (inside conn.WriteJSON)
    hubMsg,       \* the message of the broadcast case, <<m>>, or <<>>
    hubTodo,      \* connections the range loop has not visited yet
    hubConn,      \* {c}: the connection whose WriteJSON the hub is inside
    passWrites,   \* per connection: the WriteJSON calls of the pass under
                  \* way, each "pending", "ok" or "err", in call order
    evictors,     \* per connection: goroutines blocked on h.unregister <- c
    closeCount,   \* per connection: conn.Close() calls made by the hub
    \* ---- HandleConnection, one per connection
    handlerPc,    \* "idle" | "register" | "welcome" | "read" | "unregister"
                  \* | "done"
    \* ---- callers of BroadcastRealtimeData / BroadcastAlert
    callerPc,     \* "idle" | "rt_select" | "alert_select" | "sent"
                  \* | "dropped" | "skipped"
    accepted,     \* label of the next event the channel accepts
    \* ---- Subscriber
    wsBroadcaster, \* s.wsBroadcaster is set (not nil)
    subscribed,   \* SubscribeToEnergyData has run: messages arrive, the
                  \* sweep goroutine is started
    deviceStatus, \* s.deviceStatus: device id -> DeviceStatus
    nextSweep,    \* clock value of the sweep ticker's next tick
    \* ---- EnergyService / IoTDB
    saveCalls,    \* number of SaveEnergyData calls made
    stored,       \* the records InsertData has inserted
    \* ---- environment and observation of handleEnergyMessage
    now,          \* wall clock, in ms since the process started
    received,     \* number of MQTT messages handed to handleEnergyMessage
    lastPayload,  \* <<p>>, p the raw payload of the last message, as the
                  \* handler logs it; <<>> before the first message
    lastOutcome,  \* how the last message ended: "none" | "undecodable"
                  \* | "invalid" | "processed"
    lastCalls,    \* the calls handleEnergyMessage made for the last message
    \* ---- callers of GetDeviceStatus / GetAllDeviceStatus
    statusObj,    \* device id -> which DeviceStatus object the map points to
                  \* (the number of the message whose touch allocated it)
    held,         \* the *DeviceStatus pointers the last query returned, each
                  \* with the value it had at return and the value it has now
    \* ---- the register / unregister cases on their own
    opLog,        \* the requests processed, each with the session set before
    \* ---- h.clientsMutex and GetConnectedClients
    lockW,        \* the hub goroutine holds clientsMutex.Lock
    lockR,        \* the goroutines that hold clientsMutex.RLock
    healthPc,     \* GetConnectedClients: "idle" | "rlocked" | "counted"
    \* ---- what the sessions receive
    wire,         \* per connection: the events written to it, in write order
    greeted,      \* per connection: the results of its welcome writes
    \* ---- updateDeviceStatus step by step
    touchPc,      \* per caller: "idle" | "locked" | "built" | "stored" | "done"
    statusLock,   \* the caller that holds statusMutex, 0 when it is free
    touchTime,    \* per caller: the time.Now().UnixMilli() it read
    touchLog,     \* the callers in the order of their map assignments
    sweepPc,      \* checkDeviceStatus: "idle" | "locked" | "read" | "swept"
    sweepNow,     \* the time.Now().UnixMilli() the sweep read last
    \* ---- the browser's EnergyWebSocket
    client,       \* the object's fields, its sockets and its pending timers
    clientLog,    \* the reconnects scheduled since the last open
    \* ---- InsertData on its own
    insIn,        \* the store's state and what its session will answer
    insOut,       \* whether the call was made, what it did and returned
    \* ---- the threshold evaluator on its own
    evalIn,       \* the reading handed to CheckThresholdAlert
    evalOut       \* whether the call was made, and what it returned

hubVars == <<clients, broadcast, hubPc, hubMsg, hubTodo, hubConn, passWrites,
             evictors, closeCount, handlerPc, callerPc, accepted>>

ingestVars == <<wsBroadcaster, subscribed, deviceStatus, nextSweep, saveCalls,
                stored, now, received, lastPayload, lastOutcome,
                lastCalls>>

queryVars == <<statusObj, held>>

setVars == <<opLog>>

lockVars == <<lockW, lockR, healthPc>>

wireVars == <<wire, greeted>>

touchVars == <<touchPc, statusLock, touchTime, touchLog, sweepPc, sweepNow>>

clientVars == <<client, clientLog>>

insertVars == <<insIn, insOut>>

evalVars == <<evalIn, evalOut>>

vars == <<hubVars, ingestVars, queryVars, setVars, lockVars, wireVars,
          touchVars, clientVars, insertVars, evalVars>>

\* ------------------------------------------------------------- the hub
\* A count that never reads zero.
ClientCount_AtLeastOne == Cardinality(clients) + 1

\* len(h.clients), read under clientsMutex.RLock
ClientCount == Cardinality(clients)

\* A channel whose buffer holds a single event.
ChannelHasRoom_Cap1(q) == Len(q) < 1

\* A channel that takes one value more than its capacity.
ChannelHasRoom_OneMore(q) == Len(q) <= BroadcastCap

\* The buffered channel h.broadcast accepts a send without blocking.
ChannelHasRoom(q) == Len(q) < BroadcastCap

\* A channel that hands out the newest value first.
TrySend_Front(q, m) == [queue |-> <<m>> \o q, sent |-> TRUE]

\* select { case h.broadcast <- m: ... default: ... }
TrySend(q, m) ==
    IF ChannelHasRoom(q)
    THEN [queue |-> Append(q, m), sent |-> TRUE]
    ELSE [queue |-> q, sent |-> FALSE]

Resting == {"idle", "sent", "dropped", "skipped"}

\* constructor(url, onDataCallback, onStatusCallback); orphans counts the
\* sockets the object no longer refers to whose handlers can still run.
NewEnergyWebSocket ==
    [ws |-> "null", reconnectAttempts |-> 0, isIntentionallyClosed |-> FALSE,
     timers |-> 0,
     orphans |-> [connecting |-> 0, open |-> 0, closing |-> 0]]

\* NewWebSocketHandler: empty map, empty channel, runHub started.
InitHub ==
    /\ clients = {}
    /\ broadcast = <<>>
    /\ hubPc = "select"
    /\ hubMsg = <<>>
    /\ hubTodo = {}
    /\ hubConn = {}
    /\ passWrites = [c \in Conns |-> <<>>]
    /\ evictors = [c \in Conns |-> 0]
    /\ closeCount = [c \in Conns |-> 0]
    /\ handlerPc = [c \in Conns |-> "idle"]
    /\ callerPc = [p \in Callers |-> "idle"]
    /\ accepted = 0

\* BroadcastRealtimeData, first half: read the client count under the read
\* lock; return at once when it is zero.
BroadcastRealtimeDataBegin(p) ==
    /\ callerPc[p] \in Resting
    /\ callerPc' = [callerPc EXCEPT ![p] =
                       IF ClientCount = 0 THEN "skipped" ELSE "rt_select"]
    /\ UNCHANGED <<ingestVars, queryVars, setVars, lockVars, wireVars,
                   touchVars, clientVars, insertVars, evalVars,
                   clients, broadcast, hubPc, hubMsg, hubTodo, hubConn,
                   passWrites, evictors, closeCount, handlerPc, accepted>>

\* BroadcastRealtimeData, second half: the non-blocking send.
BroadcastRealtimeDataSelect(p) ==
    /\ callerPc[p] = "rt_select"
    /\ LET r == TrySend(broadcast, accepted)
       IN /\ broadcast' = r.queue
          /\ accepted' = IF r.sent THEN (accepted + 1) % SeqMod ELSE accepted
          /\ callerPc' = [callerPc EXCEPT ![p] =
                             IF r.sent THEN "sent" ELSE "dropped"]
    /\ UNCHANGED <<ingestVars, queryVars, setVars, lockVars, wireVars,
                   touchVars, clientVars, insertVars, evalVars,
                   clients, hubPc, hubMsg, hubTodo, hubConn, passWrites,
                   evictors, closeCount, handlerPc>>

\* BroadcastAlert, first half.
BroadcastAlertBegin(p) ==
    /\ callerPc[p] \in Resting
    /\ callerPc' = [callerPc EXCEPT ![p] =
                       IF ClientCount = 0 THEN "skipped" ELSE "alert_select"]
    /\ UNCHANGED <<ingestVars, queryVars, setVars, lockVars, wireVars,
                   touchVars, clientVars, insertVars, evalVars,
                   clients, broadcast, hubPc, hubMsg, hubTodo, hubConn,
                   passWrites, evictors, closeCount, handlerPc, accepted>>

\* BroadcastAlert, second half.
BroadcastAlertSelect(p) ==
    /\ callerPc[p] = "alert_select"
    /\ LET r == TrySend(broadcast, accepted)
       IN /\ broadcast' = r.queue
          /\ accepted' = IF r.sent THEN (accepted + 1) % SeqMod ELSE accepted
          /\ callerPc' = [callerPc EXCEPT ![p] =
                             IF r.sent THEN "sent" ELSE "dropped"]
    /\ UNCHANGED <<ingestVars, queryVars, setVars, lockVars, wireVars,
                   touchVars, clientVars, insertVars, evalVars,
                   clients, hubPc, hubMsg, hubTodo, hubConn, passWrites,
                   evictors, closeCount, handlerPc>>

\* HandleConnection is entered for connection c and reaches h.register <- c.
HandleConnection(c) ==
    /\ handlerPc[c] = "idle"
    /\ handlerPc' = [handlerPc EXCEPT ![c] = "register"]
    /\ UNCHANGED <<ingestVars, queryVars, setVars, lockVars, wireVars,
                   touchVars, clientVars, insertVars, evalVars,
                   clients, broadcast, hubPc, hubMsg, hubTodo, hubConn,
                   passWrites, evictors, closeCount, callerPc, accepted>>

\* A register case that starts the map afresh.
RegisterClients_Reset(cs, c) == {c}

\* runHub, case conn := <-h.register: h.clients[conn] = true
RegisterClients(cs, c) == cs \cup {c}

\* runHub, case conn := <-h.register (rendezvous with the handler's send).
HubRegister(c) ==
    /\ hubPc = "select"
    /\ handlerPc[c] = "register"
    /\ clients' = RegisterClients(clients, c)
    /\ handlerPc' = [handlerPc EXCEPT ![c] = "welcome"]
    /\ UNCHANGED <<ingestVars, queryVars, setVars, lockVars, wireVars,
                   touchVars, clientVars, insertVars, evalVars,
                   broadcast, hubPc, hubMsg, hubTodo, hubConn, passWrites,
                   evictors, closeCount, callerPc, accepted>>

\* A handler that goes on to read whatever the welcome write returned.
AfterWelcome_Read(r) == "read"

\* HandleConnection: err := c.WriteJSON(welcomeMsg); if err != nil { return }
\* and the for loop after it: where the handler goes when the write returned r.
AfterWelcome(r) == IF r = "err" THEN "unregister" ELSE "read"

\* HandleConnection: c.WriteJSON(welcomeMsg) succeeds; the read loop starts.
WelcomeOk(c) ==
    /\ handlerPc[c] = "welcome"
    /\ handlerPc' = [handlerPc EXCEPT ![c] = AfterWelcome("ok")]
    /\ UNCHANGED <<ingestVars, queryVars, setVars, lockVars, wireVars,
                   touchVars, clientVars, insertVars, evalVars,
                   clients, broadcast, hubPc, hubMsg, hubTodo, hubConn,
                   passWrites, evictors, closeCount, callerPc, accepted>>

\* HandleConnection: c.WriteJSON(welcomeMsg) fails; return runs the defer.
WelcomeFail(c) ==
    /\ handlerPc[c] = "welcome"
    /\ handlerPc' = [handlerPc EXCEPT ![c] = AfterWelcome("err")]
    /\ UNCHANGED <<ingestVars, queryVars, setVars, lockVars, wireVars,
                   touchVars, clientVars, insertVars, evalVars,
                   clients, broadcast, hubPc, hubMsg, hubTodo, hubConn,
                   passWrites, evictors, closeCount, callerPc, accepted>>

\* HandleConnection: c.ReadMessage() returns an error; break runs the defer.
ReadError(c) ==
    /\ handlerPc[c] = "read"
    /\ handlerPc' = [handlerPc EXCEPT ![c] = "unregister"]
    /\ UNCHANGED <<ingestVars, queryVars, setVars, lockVars, wireVars,
                   touchVars, clientVars, insertVars, evalVars,
                   clients, broadcast, hubPc, hubMsg, hubTodo, hubConn,
                   passWrites, evictors, closeCount, callerPc, accepted>>

\* An unregister case that leaves the map as it is.
UnregisterClients_Keep(cs, c) == cs

\* runHub, case conn := <-h.unregister: the body run on connection c.
UnregisterClients(cs, c) == cs \ {c}

\* An unregister case that deletes and leaves the connection open.
UnregisterCloses_Never(cc, cs, c) == cc

\* An unregister case that closes without looking at the map.
UnregisterCloses_Always(cc, cs, c) == [cc EXCEPT ![c] = @ + 1]

UnregisterCloses(cc, cs, c) ==
    IF c \in cs THEN [cc EXCEPT ![c] = @ + 1] ELSE cc

\* ... fed by the deferred h.unregister <- c of HandleConnection.
HubUnregisterHandler(c) ==
    /\ hubPc = "select"
    /\ handlerPc[c] = "unregister"
    /\ clients' = UnregisterClients(clients, c)
    /\ closeCount' = UnregisterCloses(closeCount, clients, c)
    /\ handlerPc' = [handlerPc EXCEPT ![c] = "done"]
    /\ UNCHANGED <<ingestVars, queryVars, setVars, lockVars, wireVars,
                   touchVars, clientVars, insertVars, evalVars,
                   broadcast, hubPc, hubMsg, hubTodo, hubConn, passWrites,
                   evictors, callerPc, accepted>>

\* ... fed by an eviction goroutine spawned after a failed broadcast write.
HubUnregisterEvictor(c) ==
    /\ hubPc = "select"
    /\ evictors[c] > 0
    /\ clients' = UnregisterClients(clients, c)
    /\ closeCount' = UnregisterCloses(closeCount, clients, c)
    /\ evictors' = [evictors EXCEPT ![c] = @ - 1]
    /\ UNCHANGED <<ingestVars, queryVars, setVars, lockVars, wireVars,
                   touchVars, clientVars, insertVars, evalVars,
                   broadcast, hubPc, hubMsg, hubTodo, hubConn, passWrites,
                   handlerPc, callerPc, accepted>>

\* runHub, case message := <-h.broadcast: RLock, start ranging over clients.
HubDequeue ==
    /\ hubPc = "select"
    /\ broadcast # <<>>
    /\ hubMsg' = <<Head(broadcast)>>
    /\ broadcast' = Tail(broadcast)
    /\ hubTodo' = clients
    /\ hubPc' = "range"
    /\ UNCHANGED <<ingestVars, queryVars, setVars, lockVars, wireVars,
                   touchVars, clientVars, insertVars, evalVars,
                   clients, hubConn, passWrites, evictors, closeCount,
                   handlerPc, callerPc, accepted>>

\* for conn := range h.clients: the loop enters conn.WriteJSON(message).
HubWriteBegin(c) ==
    /\ hubPc = "range"
    /\ c \in hubTodo
    /\ hubTodo' = hubTodo \ {c}
    /\ hubConn' = {c}
    /\ passWrites' = [passWrites EXCEPT ![c] = Append(@, "pending")]
    /\ hubPc' = "write"
    /\ UNCHANGED <<ingestVars, queryVars, setVars, lockVars, wireVars,
                   touchVars, clientVars, insertVars, evalVars,
                   clients, broadcast, hubMsg, evictors, closeCount,
                   handlerPc, callerPc, accepted>>

\* The call under way on connection c returns with outcome r.
WriteReturned(pw, conn, r) ==
    [c \in Conns |-> IF c \in conn
                     THEN SubSeq(pw[c], 1, Len(pw[c]) - 1) \o <<r>>
                     ELSE pw[c]]

\* conn.WriteJSON(message) returns nil.
HubWriteOk ==
    /\ hubPc = "write"
    /\ passWrites' = WriteReturned(passWrites, hubConn, "ok")
    /\ hubConn' = {}
    /\ hubPc' = "range"
    /\ UNCHANGED <<ingestVars, queryVars, setVars, lockVars, wireVars,
                   touchVars, clientVars, insertVars, evalVars,
                   clients, broadcast, hubMsg, hubTodo, evictors,
                   closeCount, handlerPc, callerPc, accepted>>

\* A loop that breaks at the first failed write.
TodoAfterFail_Break(todo) == {}

\* What is left to visit after a failed write: the loop goes on.
TodoAfterFail(todo) == todo

\* conn.WriteJSON(message) returns an error: spawn the eviction goroutine.
HubWriteFail ==
    /\ hubPc = "write"
    /\ \A c \in hubConn : evictors[c] < MaxEvictors
    /\ evictors' = [c \in Conns |->
                       IF c \in hubConn THEN evictors[c] + 1 ELSE evictors[c]]
    /\ hubTodo' = TodoAfterFail(hubTodo)
    /\ passWrites' = WriteReturned(passWrites, hubConn, "err")
    /\ hubConn' = {}
    /\ hubPc' = "range"
    /\ UNCHANGED <<ingestVars, queryVars, setVars, lockVars, wireVars,
                   touchVars, clientVars, insertVars, evalVars,
                   clients, broadcast, hubMsg, closeCount,
                   handlerPc, callerPc, accepted>>

\* The range loop is exhausted: RUnlock, back to the select.
HubRangeDone ==
    /\ hubPc = "range"
    /\ hubTodo = {}
    /\ hubMsg' = <<>>
    /\ passWrites' = [c \in Conns |-> <<>>]
    /\ hubPc' = "select"
    /\ UNCHANGED <<ingestVars, queryVars, setVars, lockVars, wireVars,
                   touchVars, clientVars, insertVars, evalVars,
                   clients, broadcast, hubTodo, hubConn, evictors,
                   closeCount, handlerPc, callerPc, accepted>>

\* runHub, case <-ticker.C: read the client count, log it.
HubTick ==
    /\ hubPc = "select"
    /\ UNCHANGED vars

\* ------------------------------------------------ int64 and the clock
\* An int64 is kept as hi * 10^6 + lo with 0 <= lo < 10^6.
Base == 1000 * 1000

I64(h, l) == [hi |-> h, lo |-> l]

Zero64 == I64(0, 0)

IsPos64(t) == t.hi > 0 \/ (t.hi = 0 /\ t.lo > 0)

Less64(a, b) == a.hi < b.hi \/ (a.hi = b.hi /\ a.lo < b.lo)

Mul1000(t) ==
    LET l == t.lo * 1000
    IN  I64(t.hi * 1000 + (l \div Base), l % Base)

\* a - b, for values less than about 2000 * 10^6 apart
Sub64(a, b) == (a.hi - b.hi) * Base + (a.lo - b.lo)

\* Unix time in ms at which the process started (2025-11-01 12:26:40 UTC).
ProcessStart == I64(1762000, 0)

\* time.Now().UnixMilli()
UnixMilli == I64(ProcessStart.hi, ProcessStart.lo + now)

\* ------------------------------------------------------ the MQTT payload
\* The JSON "timestamp" member of a payload: absent, a string or a number.
NoTimestamp == [kind |-> "absent", text |-> "", num |-> Zero64]

TextTimestamp(t) == [kind |-> "string", text |-> t, num |-> Zero64]

NumTimestamp(n) == [kind |-> "number", text |-> "", num |-> n]

TimestampInputs ==
    { NoTimestamp,
      NumTimestamp(I64(1700, 0)),        \* 1700000000 (seconds)
      NumTimestamp(I64(1700000, 0)),     \* 1700000000000 (milliseconds)
      TextTimestamp("2025-10-20 00:55:31"),
      TextTimestamp("soon") }

DeviceIdInputs == {"", "dev1"}

PowerInputs == {100, 2500}

Payload(id, ts, v, i, p) ==
    [json |-> "ok", device_id |-> id, timestamp |-> ts, voltage |-> v,
     current |-> i, power |-> p]

\* What the broker delivers: readings of a healthy supply with and without
\* a device id, below and above the power limit; readings with every form
\* of timestamp; a reading above the power limit stamped with the epoch;
\* readings with one field out of range; and a payload that is not JSON.
Payloads ==
    { Payload(id, NoTimestamp, 220, 5, p) :
        id \in DeviceIdInputs, p \in PowerInputs }
    \cup
    { Payload("dev1", ts, 220, 5, 100) : ts \in TimestampInputs }
    \cup
    { Payload("dev1", TextTimestamp("1970-01-01 00:00:00"), 220, 5, 2500),
      Payload("dev1", NumTimestamp(I64(1700, 0)), 0, 5, 100),
      Payload("dev1", NoTimestamp, -1, 5, 100),
      Payload("dev1", NoTimestamp, 220, -1, 100),
      Payload("dev1", NoTimestamp, 220, 5, -1),
      [Payload("", NoTimestamp, 0, 0, 0) EXCEPT !.json = "bad"] }

\* models.MQTTMessage: the json tag of each field the pipeline reads.
JsonTags ==
    [DeviceID |-> "device_id", TimestampStr |-> "timestamp",
     Timestamp |-> "timestamp", Voltage |-> "voltage", Current |-> "current",
     Power |-> "power"]

\* encoding/json binds a tag to a field only when no other field of the
\* struct carries the same tag: fields tagged alike are all left out.
FieldDecoded(f) ==
    Cardinality({g \in DOMAIN JsonTags : JsonTags[g] = JsonTags[f]}) = 1

\* json.Unmarshal(msg.Payload(), &mqttMsg)
Unmarshal(payload) ==
    LET ts == payload.timestamp
        mismatch ==
            \/ FieldDecoded("TimestampStr") /\ ts.kind = "number"
            \/ FieldDecoded("Timestamp") /\ ts.kind = "string"
    IN  [err |-> payload.json = "bad" \/ mismatch,
         msg |-> [DeviceID |-> payload.device_id,
                  TimestampStr |-> IF FieldDecoded("TimestampStr")
                                      /\ ts.kind = "string"
                                   THEN ts.text ELSE "",
                  Timestamp |-> IF FieldDecoded("Timestamp")
                                   /\ ts.kind = "number"
                                THEN ts.num ELSE Zero64,
                  Voltage |-> payload.voltage,
                  Current |-> payload.current,
                  Power |-> payload.power]]

\* A handler that keeps the device id it was given.
DefaultDeviceID_Keep(id) == id

\* if mqttMsg.DeviceID == "" { mqttMsg.DeviceID = "ESP32_PZEM" }
DefaultDeviceID(id) == IF id = "" THEN "ESP32_PZEM" ELSE id

\* A check that lets a zero voltage through.
Validate_ZeroVoltage(msg) ==
    ~(msg.Voltage < 0) /\ ~(msg.Current < 0) /\ ~(msg.Power < 0)

\* VALIDATE DATA: the three early returns of handleEnergyMessage.
Validate(msg) ==
    ~(msg.Voltage <= 0) /\ ~(msg.Current < 0) /\ ~(msg.Power < 0)

\* The fields of a text in the layout "2006-01-02 15:04:05", <<>> when the
\* text does not follow it.
LayoutFields(text) ==
    CASE text = "2025-10-20 00:55:31" -> <<2025, 10, 20, 0, 55, 31>>
      [] text = "1970-01-01 00:00:00" -> <<1970, 1, 1, 0, 0, 0>>
      [] OTHER -> <<>>

\* Days from 1970-01-01 to the civil date y-m-d.
DaysFromCivil(y, m, d) ==
    LET yy  == IF m <= 2 THEN y - 1 ELSE y
        era == yy \div 400
        yoe == yy - era * 400
        mp  == (m + 9) % 12
        doy == (153 * mp + 2) \div 5 + d - 1
        doe == yoe * 365 + (yoe \div 4) - (yoe \div 100) + doy
    IN  era * 146097 + doe - 719468

\* time.Parse("2006-01-02 15:04:05", text) followed by t.UnixMilli()
ParseTimestamp(text) ==
    LET f == LayoutFields(text)
    IN  IF f = <<>>
        THEN [err |-> TRUE, ms |-> Zero64]
        ELSE LET secs == DaysFromCivil(f[1], f[2], f[3]) * 86400
                         + f[4] * 3600 + f[5] * 60 + f[6]
             IN  [err |-> FALSE,
                  ms |-> Mul1000(I64(secs \div Base, secs % Base))]

\* if mqttMsg.Timestamp < 1000000000000
MsLimit == I64(1000000, 0)

\* HANDLE TIMESTAMP CONVERSION: the if / else-if / else of handleEnergyMessage.
ResolveTimestamp(msg, nowMs) ==
    IF msg.TimestampStr # ""
    THEN LET p == ParseTimestamp(msg.TimestampStr)
         IN  IF p.err THEN nowMs ELSE p.ms
    ELSE IF IsPos64(msg.Timestamp)
         THEN IF Less64(msg.Timestamp, MsLimit)
              THEN Mul1000(msg.Timestamp)
              ELSE msg.Timestamp
         ELSE nowMs

\* ------------------------------------------------------ the energy service
\* SaveEnergyData(deviceID, data); dbFails: InsertData returns an error.
\* data is a pointer: the timestamp the function sets stays set.
\* A storage step that stamps every reading with its own, later clock.
SaveEnergyData_OwnClock(data, nowMs, dbFails) ==
    [err |-> dbFails,
     data |-> [data EXCEPT !.Timestamp = I64(nowMs.hi, nowMs.lo + 1)],
     inserted |-> ~dbFails]

SaveEnergyData(data, nowMs, dbFails) ==
    IF data.Voltage <= 0
    THEN [err |-> TRUE, data |-> data, inserted |-> FALSE]
    ELSE LET d == IF data.Timestamp = Zero64
                  THEN [data EXCEPT !.Timestamp = nowMs]
                  ELSE data
         IN  [err |-> dbFails, data |-> d, inserted |-> ~dbFails]

AlertData(deviceID, type, threshold, actual, ts) ==
    [type |-> "alert", DeviceID |-> deviceID, AlertType |-> type,
     Threshold |-> threshold, ActualValue |-> actual, Timestamp |-> ts]

\* An evaluator that looks at the current before the power.
CheckThresholdAlert_CurrentFirst(deviceID, data) ==
    IF data.Current > maxCurrent
    THEN <<AlertData(deviceID, "high_current", maxCurrent, data.Current,
                     data.Timestamp)>>
    ELSE IF data.Power > maxPower
    THEN <<AlertData(deviceID, "high_power", maxPower, data.Power,
                     data.Timestamp)>>
    ELSE IF data.Voltage < minVoltage \/ data.Voltage > maxVoltage
    THEN <<AlertData(deviceID, "voltage_abnormal", minVoltage, data.Voltage,
                     data.Timestamp)>>
    ELSE <<>>

\* CheckThresholdAlert(deviceID, data): <<alert>>, or <<>> for nil.
CheckThresholdAlert(deviceID, data) ==
    IF data.Power > maxPower
    THEN <<AlertData(deviceID, "high_power", maxPower, data.Power,
                     data.Timestamp)>>
    ELSE IF data.Current > maxCurrent
    THEN <<AlertData(deviceID, "high_current", maxCurrent, data.Current,
                     data.Timestamp)>>
    ELSE IF data.Voltage < minVoltage \/ data.Voltage > maxVoltage
    THEN <<AlertData(deviceID, "voltage_abnormal", minVoltage, data.Voltage,
                     data.Timestamp)>>
    ELSE <<>>

\* ------------------------------------------------------ the subscriber
DeviceStatus(deviceID, status, lastSeen) ==
    [DeviceID |-> deviceID, DeviceName |-> deviceID, Status |-> status,
     LastSeen |-> lastSeen]

\* updateDeviceStatus(deviceID, status): the map after the assignment.
updateDeviceStatus(table, deviceID, status, nowMs) ==
    [d \in DOMAIN table \cup {deviceID} |->
        IF d = deviceID THEN DeviceStatus(deviceID, status, nowMs)
        ELSE table[d]]

\* s.deviceStatus[deviceID] = &models.DeviceStatus{...}: the map entry is
\* pointed at a freshly allocated object, here object number obj.
NewStatusObject(objs, deviceID, obj) ==
    [d \in DOMAIN objs \cup {deviceID} |->
        IF d = deviceID THEN obj ELSE objs[d]]

RealtimeData(msg, timestampMs) ==
    [type |-> "realtime", DeviceID |-> msg.DeviceID,
     DeviceName |-> msg.DeviceID, Voltage |-> msg.Voltage,
     Current |-> msg.Current, Power |-> msg.Power, Status |-> "online",
     Timestamp |-> timestampMs]

EnergyData(msg, timestampMs) ==
    [Timestamp |-> timestampMs, Voltage |-> msg.Voltage,
     Current |-> msg.Current, Power |-> msg.Power]

\* One call of BroadcastRealtimeData or BroadcastAlert made while no other
\* goroutine runs in between: the queue after the call.
BroadcastCall(count, q, m) ==
    IF count = 0 THEN q ELSE TrySend(q, m).queue

\* A handler that returns when the save fails.
ContinueAfterSave_Abort(err) == ~err

\* if err := SaveEnergyData(...); err != nil { log } -- no return.
ContinueAfterSave(err) == TRUE

Call(op, arg, err) == [op |-> op, arg |-> arg, err |-> err]

\* A pipeline that keeps every alert to itself.
AlertIsSent_Never(alert, hasBroadcaster) == FALSE

\* if alert := ...CheckThresholdAlert(...); alert != nil {
\*     if s.wsBroadcaster != nil { s.wsBroadcaster.BroadcastAlert(*alert) } }
AlertIsSent(alert, hasBroadcaster) == alert # <<>> /\ hasBroadcaster

\* What handleEnergyMessage does with one payload in the current state.
Pipeline(payload, dbFails) ==
    LET u   == Unmarshal(payload)
        msg == [u.msg EXCEPT !.DeviceID = DefaultDeviceID(@)]
        same == [outcome |-> "", deviceStatus |-> deviceStatus,
                 broadcast |-> broadcast, stored |-> stored,
                 saveCalls |-> saveCalls, calls |-> <<>>,
                 statusObj |-> statusObj]
    IN  IF u.err THEN [same EXCEPT !.outcome = "undecodable"]
        ELSE IF ~Validate(msg) THEN [same EXCEPT !.outcome = "invalid"]
        ELSE
        LET timestampMs == ResolveTimestamp(msg, UnixMilli)
            save  == SaveEnergyData(EnergyData(msg, timestampMs), UnixMilli,
                                    dbFails)
            saved == [same EXCEPT
                        !.saveCalls = @ + 1,
                        !.stored = IF save.inserted
                                   THEN @ \cup {[DeviceID |-> msg.DeviceID,
                                                 data |-> save.data]}
                                   ELSE @,
                        !.calls = <<Call("SaveEnergyData", save.data,
                                         save.err)>>]
            alert == CheckThresholdAlert(msg.DeviceID, save.data)
            sendAlert == AlertIsSent(alert, wsBroadcaster)
            q1 == IF sendAlert
                  THEN BroadcastCall(ClientCount, broadcast, alert[1])
                  ELSE broadcast
            rt == RealtimeData(msg, timestampMs)
            q2 == IF wsBroadcaster
                  THEN BroadcastCall(ClientCount, q1, rt)
                  ELSE q1
        IN  IF ~ContinueAfterSave(save.err)
            THEN [saved EXCEPT !.outcome = "aborted"]
            ELSE [saved EXCEPT
                    !.outcome = "processed",
                    !.deviceStatus = updateDeviceStatus(deviceStatus,
                                        msg.DeviceID, "online", UnixMilli),
                    !.statusObj = NewStatusObject(statusObj, msg.DeviceID,
                                                  received + 1),
                    !.broadcast = q2,
                    !.calls = @
                        \o <<Call("updateDeviceStatus", msg.DeviceID, FALSE)>>
                        \o <<Call("CheckThresholdAlert", alert, FALSE)>>
                        \o (IF sendAlert
                            THEN <<Call("BroadcastAlert", alert[1], FALSE)>>
                            ELSE <<>>)
                        \o (IF wsBroadcaster
                            THEN <<Call("BroadcastRealtimeData", rt, FALSE)>>
                            ELSE <<>>)]

InitIngest ==
    /\ wsBroadcaster = FALSE
    /\ subscribed = FALSE
    /\ deviceStatus = [d \in {} |-> DeviceStatus(d, "offline", Zero64)]
    /\ nextSweep = 0
    /\ saveCalls = 0
    /\ stored = {}
    /\ now = 0
    /\ received = 0
    /\ lastPayload = <<>>
    /\ lastOutcome = "none"
    /\ lastCalls = <<>>

InitQuery ==
    /\ statusObj = [d \in {} |-> 0]
    /\ held = {}
    /\ opLog = <<>>
    /\ lockW = FALSE
    /\ lockR = {}
    /\ healthPc = "idle"
    /\ wire = [c \in Conns |-> <<>>]
    /\ greeted = [c \in Conns |-> <<>>]
    /\ touchPc = [t \in Touchers |-> "idle"]
    /\ statusLock = 0
    /\ touchTime = [t \in Touchers |-> Zero64]
    /\ touchLog = <<>>
    /\ sweepPc = "idle"
    /\ sweepNow = Zero64
    /\ client = NewEnergyWebSocket
    /\ clientLog = 0

SetWebSocketBroadcaster ==
    /\ ~wsBroadcaster
    /\ wsBroadcaster' = TRUE
    /\ UNCHANGED <<hubVars, queryVars, setVars, lockVars, wireVars,
                   touchVars, clientVars, insertVars, evalVars,
                   subscribed,
                   deviceStatus,
                   nextSweep,
                   saveCalls, stored, now, received, lastPayload, lastOutcome,
                   lastCalls>>

\* A ticker of twice the period.
NextTick_Minute(t) == t + 2 * SweepIntervalMs

\* ticker := time.NewTicker(30 * time.Second): the tick after the one at t.
NextTick(t) == t + SweepIntervalMs

\* main subscribes after it has set the broadcaster; the call starts the
\* checkDeviceStatus goroutine, whose ticker first fires one period later.
SubscribeToEnergyData ==
    /\ wsBroadcaster
    /\ ~subscribed
    /\ subscribed' = TRUE
    /\ nextSweep' = NextTick(now)
    /\ UNCHANGED <<hubVars, queryVars, setVars, lockVars, wireVars,
                   touchVars, clientVars, insertVars, evalVars,
                   wsBroadcaster,
                   deviceStatus,
                   saveCalls,
                   stored, now, received, lastPayload, lastOutcome,
                   lastCalls>>

handleEnergyMessage(payload, dbFails) ==
    /\ subscribed
    /\ received < MaxMsgs
    /\ LET r == Pipeline(payload, dbFails)
       IN  /\ deviceStatus' = r.deviceStatus
           /\ broadcast' = r.broadcast
           /\ stored' = r.stored
           /\ saveCalls' = r.saveCalls
           /\ lastOutcome' = r.outcome
           /\ lastCalls' = r.calls
           /\ statusObj' = r.statusObj
    /\ received' = received + 1
    /\ lastPayload' = <<payload>>
    /\ UNCHANGED <<setVars, lockVars, wireVars, touchVars, clientVars,
                   insertVars,
                   evalVars, held, wsBroadcaster,
                   subscribed,
                   nextSweep, now,
                   clients, hubPc, hubMsg, hubTodo, hubConn, passWrites,
                   evictors, closeCount, handlerPc, callerPc, accepted>>

\* now-status.LastSeen > 60000, read the other way round.
IsStale_AtWindow(nowMs, lastSeen) == Sub64(nowMs, lastSeen) >= StaleWindowMs

\* now-status.LastSeen > 60000
IsStale(nowMs, lastSeen) == Sub64(nowMs, lastSeen) > StaleWindowMs

\* A pass that sets every online device offline, whatever its age.
SweepRecord_AnyAge(status, nowMs) == [status EXCEPT !.Status = "offline"]

\* The body of the range loop of checkDeviceStatus for one record.
SweepRecord(status, nowMs) ==
    IF IsStale(nowMs, status.LastSeen) /\ status.Status = "online"
    THEN [status EXCEPT !.Status = "offline"]
    ELSE status

\* What a device reports on its status topic.
StatusPayloads ==
    { [Payload("dev1", NoTimestamp, 0, 0, 0) EXCEPT !.json = st] :
        st \in {"status:offline", "status:online"} }

\* statusMsg["status"].(string) of a payload {"device_id": .., "status": ..}
StatusOf(payload) ==
    IF payload.json = "status:offline" THEN "offline" ELSE "online"

\* handleStatusMessage: store whatever status the message names.
handleStatusMessage(payload) ==
    /\ subscribed
    /\ received < MaxMsgs
    /\ deviceStatus' = updateDeviceStatus(deviceStatus, payload.device_id,
                                          StatusOf(payload), UnixMilli)
    /\ statusObj' = NewStatusObject(statusObj, payload.device_id,
                                    received + 1)
    /\ received' = received + 1
    /\ lastPayload' = <<payload>>
    /\ lastOutcome' = "status"
    /\ lastCalls' = <<Call("updateDeviceStatus", payload.device_id, FALSE)>>
    /\ UNCHANGED <<hubVars, setVars, lockVars, wireVars, touchVars,
                   clientVars, insertVars, evalVars, held, wsBroadcaster,
                   subscribed,
                   nextSweep, now, saveCalls, stored>>

\* A subscriber that also listens to the status topics.
Subscriptions_WithStatus ==
    { [filter |-> <<"test">>, handler |-> "handleEnergyMessage"],
      [filter |-> <<"wattwise", "energy", "+">>,
       handler |-> "handleEnergyMessage"],
      [filter |-> <<"wattwise", "status", "+">>,
       handler |-> "handleStatusMessage"] }

\* SubscribeToEnergyData: s.client.Subscribe(topic, 1, s.handleEnergyMessage)
\* for each topic of the list.
Subscriptions ==
    { [filter |-> <<"test">>, handler |-> "handleEnergyMessage"],
      [filter |-> <<"wattwise", "energy", "+">>,
       handler |-> "handleEnergyMessage"] }

\* MQTT topic matching, "+" standing for any one level.
Matches(filter, topic) ==
    /\ Len(filter) = Len(topic)
    /\ \A i \in 1..Len(filter) : filter[i] = "+" \/ filter[i] = topic[i]

\* The handlers the client calls for a message published on the topic.
HandlersFor(topic) ==
    { sub.handler : sub \in { x \in Subscriptions : Matches(x.filter, topic) } }

\* What the devices publish: readings on the topic "test", a reading on a
\* per-device energy topic, status reports on a status topic.
Published ==
    { [topic |-> <<"test">>, payload |-> pl] : pl \in Payloads }
    \cup
    { [topic |-> <<"wattwise", "energy", "dev1">>,
       payload |-> Payload("dev1", NoTimestamp, 220, 5, 100)] }
    \cup
    { [topic |-> <<"wattwise", "status", "dev1">>, payload |-> pl] :
        pl \in StatusPayloads }

\* The MQTT client receives a published message and calls the handler its
\* subscriptions name for the topic; without one the message is not
\* delivered.
OnMessage(m, dbFails) ==
    /\ HandlersFor(m.topic) # {}
    /\ IF "handleStatusMessage" \in HandlersFor(m.topic)
       THEN handleStatusMessage(m.payload)
       ELSE handleEnergyMessage(m.payload, dbFails)

\* A pointer a caller holds is the pointer the map holds for that device.
IsMapObject(h) ==
    h.DeviceID \in DOMAIN statusObj /\ statusObj[h.DeviceID] = h.obj

\* status.Status = "offline" is a write through the pointer: whoever holds
\* the same pointer sees it.
SweepHeld(h, nowMs) == [h EXCEPT !.value = SweepRecord(h.value, nowMs)]

\* One tick of checkDeviceStatus, handled at or after the time it is due.
checkDeviceStatus ==
    /\ subscribed
    /\ now >= nextSweep
    /\ deviceStatus' =
          [d \in DOMAIN deviceStatus |->
              SweepRecord(deviceStatus[d], UnixMilli)]
    /\ held' = { IF IsMapObject(h) THEN SweepHeld(h, UnixMilli) ELSE h :
                   h \in held }
    /\ nextSweep' = NextTick(nextSweep)
    /\ UNCHANGED <<hubVars, setVars, lockVars, wireVars, touchVars,
                   clientVars, insertVars, evalVars, statusObj,
                   wsBroadcaster,
                   subscribed,
                   saveCalls,
                   stored, now, received, lastPayload, lastOutcome,
                   lastCalls>>

\* The wall clock moves by one millisecond or by one ticker period.
ClockAdvance(d) ==
    /\ \/ d = 1 /\ now % SweepIntervalMs < MaxJitterMs
       \/ d = SweepIntervalMs /\ now \div SweepIntervalMs < MaxTicks
    /\ now' = now + d
    /\ UNCHANGED <<hubVars, queryVars, setVars, lockVars, wireVars,
                   touchVars, clientVars, insertVars, evalVars,
                   wsBroadcaster,
                   subscribed,
                   deviceStatus, nextSweep, saveCalls, stored, received,
                   lastPayload, lastOutcome, lastCalls>>

\* The pointer the map holds for device d, as a caller receives it.
Pointer(d) ==
    [DeviceID |-> d, obj |-> statusObj[d], returned |-> deviceStatus[d],
     value |-> deviceStatus[d]]

QueryIds == {"ESP32_PZEM", "dev1", "dev9"}

\* GetDeviceStatus(deviceID): return s.deviceStatus[deviceID], nil if absent.
GetDeviceStatus(d) ==
    /\ held' = IF d \in DOMAIN deviceStatus THEN {Pointer(d)} ELSE {}
    /\ UNCHANGED <<hubVars, ingestVars, setVars, lockVars, wireVars,
                   touchVars, clientVars, insertVars, evalVars,
                   statusObj>>

\* GetAllDeviceStatus(): the pointers of all map entries, in a new slice.
GetAllDeviceStatus ==
    /\ held' = {Pointer(d) : d \in DOMAIN deviceStatus}
    /\ UNCHANGED <<hubVars, ingestVars, setVars, lockVars, wireVars,
                   touchVars, clientVars, insertVars, evalVars,
                   statusObj>>

NextStatus ==
    \/ SetWebSocketBroadcaster
    \/ SubscribeToEnergyData
    \/ \E m \in Published, dbFails \in BOOLEAN : OnMessage(m, dbFails)
    \/ checkDeviceStatus
    \/ \E d \in {1, SweepIntervalMs} : ClockAdvance(d)
    \/ \E d \in QueryIds : GetDeviceStatus(d)
    \/ GetAllDeviceStatus

\* The connection that is opened while the pipeline runs.
Dashboard == CHOOSE c \in Conns : TRUE

NextIngest ==
    \/ SetWebSocketBroadcaster
    \/ SubscribeToEnergyData
    \/ \E m \in Published, dbFails \in BOOLEAN : OnMessage(m, dbFails)
    \/ checkDeviceStatus
    \/ \E d \in {1, SweepIntervalMs} : ClockAdvance(d)
    \/ HandleConnection(Dashboard)
    \/ HubRegister(Dashboard)

\* The evaluator before it has been called.
NotEvaluated == [done |-> FALSE, alert |-> <<>>]

\* err == nil
NoError == <<>>

\* InsertData before it has been called.
NotInserted == [done |-> FALSE, err |-> NoError, calls |-> <<>>]

\* A store that was never connected and is asked nothing.
InitInsertIdle ==
    /\ insIn = [enabled |-> FALSE, Timestamp |-> Zero64,
                first |-> [code |-> 200, err |-> NoError],
                reconnect |-> NoError,
                retry |-> [code |-> 200, err |-> NoError]]
    /\ insOut = NotInserted

InitEvalIdle ==
    /\ evalIn = [Timestamp |-> I64(1700000, 0), Voltage |-> 220,
                 Current |-> 0, Power |-> 0]
    /\ evalOut = NotEvaluated

\* ------------------------------- the register and unregister cases alone
\* The hub at its select with any set of sessions registered, their
\* handlers in the read loop.
InitSet ==
    /\ InitIngest
    /\ InitQuery
    /\ InitEvalIdle
    /\ InitInsertIdle
    /\ clients \in SUBSET Conns
    /\ handlerPc = [c \in Conns |-> IF c \in clients THEN "read" ELSE "idle"]
    /\ broadcast = <<>>
    /\ hubPc = "select"
    /\ hubMsg = <<>>
    /\ hubTodo = {}
    /\ hubConn = {}
    /\ passWrites = [c \in Conns |-> <<>>]
    /\ evictors = [c \in Conns |-> 0]
    /\ closeCount = [c \in Conns |-> 0]
    /\ callerPc = [p \in Callers |-> "idle"]
    /\ accepted = 0

Request(op, c) == [op |-> op, conn |-> c, before |-> clients]

\* The body of case conn := <-h.register, run for connection c.
RegisterCase(c) ==
    /\ Len(opLog) < MaxOps
    /\ clients' = RegisterClients(clients, c)
    /\ opLog' = Append(opLog, Request("register", c))
    /\ UNCHANGED <<ingestVars, statusObj, held, lockVars, wireVars,
                   touchVars, clientVars, insertVars, evalVars,
                   broadcast, hubPc,
                   hubMsg, hubTodo, hubConn, passWrites, evictors,
                   closeCount, handlerPc, callerPc, accepted>>

\* The body of case conn := <-h.unregister, run for connection c.
UnregisterCase(c) ==
    /\ Len(opLog) < MaxOps
    /\ clients' = UnregisterClients(clients, c)
    /\ closeCount' = UnregisterCloses(closeCount, clients, c)
    /\ opLog' = Append(opLog, Request("unregister", c))
    /\ UNCHANGED <<ingestVars, statusObj, held, lockVars, wireVars,
                   touchVars, clientVars, insertVars, evalVars,
                   broadcast, hubPc,
                   hubMsg, hubTodo, hubConn, passWrites, evictors,
                   handlerPc, callerPc, accepted>>

NextSet ==
    \/ \E c \in Conns : RegisterCase(c)
    \/ \E c \in Conns : UnregisterCase(c)

\* ------------------------------------------------------- clientsMutex
\* The goroutines that take the read lock.
HubThread == <<"runHub">>

CallerThread(p) == <<"caller", p>>

HealthThread == <<"GetConnectedClients">>

\* A mutex that lets readers in while the writer holds it.
CanRLock_Always(w) == TRUE

\* sync.RWMutex: RLock returns while no goroutine holds Lock.
CanRLock(w) == ~w

\* sync.RWMutex: Lock returns while no goroutine holds Lock or RLock.
CanLock(w, r) == ~w /\ r = {}

\* What each step below leaves alone.
LockFrame == UNCHANGED <<ingestVars, queryVars, setVars, wireVars, touchVars,
                   clientVars, insertVars, evalVars,
                         hubMsg,
                         hubTodo, passWrites, evictors, accepted>>

\* runHub, case conn := <-h.register: the receive and clientsMutex.Lock().
RegisterLock(c) ==
    /\ hubPc = "select"
    /\ handlerPc[c] = "register"
    /\ CanLock(lockW, lockR)
    /\ lockW' = TRUE
    /\ hubConn' = {c}
    /\ hubPc' = "reg_locked"
    /\ handlerPc' = [handlerPc EXCEPT ![c] = "welcome"]
    /\ LockFrame
    /\ UNCHANGED <<clients, broadcast, closeCount, callerPc, lockR, healthPc>>

\* h.clients[conn] = true
RegisterStore ==
    /\ hubPc = "reg_locked"
    /\ clients' = UNION {RegisterClients(clients, c) : c \in hubConn}
    /\ hubPc' = "reg_stored"
    /\ LockFrame
    /\ UNCHANGED <<broadcast, hubConn, closeCount, handlerPc, callerPc,
                   lockVars>>

\* runHub, case conn := <-h.unregister, sent by the handler's defer:
\* the receive and clientsMutex.Lock().
UnregisterLock(c) ==
    /\ hubPc = "select"
    /\ handlerPc[c] = "unregister"
    /\ CanLock(lockW, lockR)
    /\ lockW' = TRUE
    /\ hubConn' = {c}
    /\ hubPc' = "unreg_locked"
    /\ handlerPc' = [handlerPc EXCEPT ![c] = "done"]
    /\ LockFrame
    /\ UNCHANGED <<clients, broadcast, closeCount, callerPc, lockR, healthPc>>

\* if _, ok := h.clients[conn]; ok { delete(h.clients, conn); conn.Close() }
UnregisterDelete ==
    /\ hubPc = "unreg_locked"
    /\ \E c \in hubConn :
          /\ clients' = UnregisterClients(clients, c)
          /\ closeCount' = UnregisterCloses(closeCount, clients, c)
    /\ hubPc' = "unreg_deleted"
    /\ LockFrame
    /\ UNCHANGED <<broadcast, hubConn, handlerPc, callerPc, lockVars>>

\* h.clientsMutex.Unlock() of either case.
HubUnlock ==
    /\ hubPc \in {"reg_stored", "unreg_deleted"}
    /\ lockW' = FALSE
    /\ hubPc' = "unlocked"
    /\ LockFrame
    /\ UNCHANGED <<clients, broadcast, hubConn, closeCount, handlerPc,
                   callerPc, lockR, healthPc>>

\* log.Printf(..., len(h.clients)) after the Unlock: the hub reads the size
\* of the map without a lock.
HubLogLen ==
    /\ hubPc = "unlocked"
    /\ hubConn' = {}
    /\ hubPc' = "select"
    /\ LockFrame
    /\ UNCHANGED <<clients, broadcast, closeCount, handlerPc, callerPc,
                   lockVars>>

\* A hub that sends the eviction request itself: it waits in the send on
\* the channel it alone receives from.
AfterSpawn_SendInline == "evict_send"

\* runHub: where the hub is after go func(c) { h.unregister <- c }(conn):
\* still in its range loop.
AfterSpawn == "bc_read"

\* A ticker case that takes an event off the queue as well.
AfterReceive_Consume(what, q) == IF q = <<>> THEN q ELSE Tail(q)

\* runHub's select: case message := <-h.broadcast takes the head of the
\* queue; case <-ticker.C receives from the ticker and leaves the queue.
AfterReceive(what, q) == IF what = "bc_rlocked" THEN Tail(q) ELSE q

\* runHub, case message := <-h.broadcast and case <-ticker.C: RLock.
HubRLock(what) ==
    /\ hubPc = "select"
    /\ what = "bc_rlocked" => broadcast # <<>>
    /\ CanRLock(lockW)
    /\ lockR' = lockR \cup {HubThread}
    /\ broadcast' = AfterReceive(what, broadcast)
    /\ hubPc' = what
    /\ LockFrame
    /\ UNCHANGED <<clients, hubConn, closeCount, handlerPc, callerPc, lockW,
                   healthPc>>

\* len(h.clients) and, in the broadcast case, the range over h.clients.
HubRead ==
    /\ hubPc \in {"bc_rlocked", "tick_rlocked"}
    /\ hubPc' = IF hubPc = "tick_rlocked" THEN "tick_read" ELSE "bc_read"
    /\ LockFrame
    /\ UNCHANGED <<clients, broadcast, hubConn, closeCount, handlerPc,
                   callerPc, lockVars>>

\* runHub, broadcast case: conn.WriteJSON(message) on c has returned an
\* error; go func(c) { h.unregister <- c }(conn) is started and the range
\* goes on.
HubSpawnEvictor(c) ==
    /\ hubPc = "bc_read"
    /\ c \in clients
    /\ evictors[c] < MaxEvictors
    /\ evictors' = [evictors EXCEPT ![c] = @ + 1]
    /\ hubPc' = AfterSpawn
    /\ UNCHANGED <<ingestVars, queryVars, setVars, wireVars, touchVars,
                   clientVars, insertVars, evalVars, hubMsg, hubTodo,
                   passWrites,
                   accepted, clients,
                   broadcast, hubConn, closeCount, handlerPc, callerPc,
                   lockVars>>

\* runHub, case conn := <-h.unregister, sent by an eviction goroutine: the
\* receive and clientsMutex.Lock().
EvictorUnregisterLock(c) ==
    /\ hubPc = "select"
    /\ evictors[c] > 0
    /\ CanLock(lockW, lockR)
    /\ lockW' = TRUE
    /\ hubConn' = {c}
    /\ hubPc' = "unreg_locked"
    /\ evictors' = [evictors EXCEPT ![c] = @ - 1]
    /\ UNCHANGED <<ingestVars, queryVars, setVars, wireVars, touchVars,
                   clientVars, insertVars, evalVars, hubMsg, hubTodo,
                   passWrites,
                   accepted, clients,
                   broadcast, closeCount, handlerPc, callerPc, lockR,
                   healthPc>>

\* h.clientsMutex.RUnlock() of either case.
HubRUnlock ==
    /\ hubPc \in {"bc_read", "tick_read"}
    /\ lockR' = lockR \ {HubThread}
    /\ hubPc' = "select"
    /\ LockFrame
    /\ UNCHANGED <<clients, broadcast, hubConn, closeCount, handlerPc,
                   callerPc, lockW, healthPc>>

\* BroadcastRealtimeData: h.clientsMutex.RLock()
CallerRLock(p) ==
    /\ callerPc[p] \in Resting
    /\ CanRLock(lockW)
    /\ lockR' = lockR \cup {CallerThread(p)}
    /\ callerPc' = [callerPc EXCEPT ![p] = "rlocked"]
    /\ LockFrame
    /\ UNCHANGED <<clients, broadcast, hubPc, hubConn, closeCount, handlerPc,
                   lockW, healthPc>>

\* clientCount := len(h.clients)
CallerLen(p) ==
    /\ callerPc[p] = "rlocked"
    /\ callerPc' = [callerPc EXCEPT ![p] =
                       IF ClientCount = 0 THEN "counted_0" ELSE "counted"]
    /\ LockFrame
    /\ UNCHANGED <<clients, broadcast, hubPc, hubConn, closeCount, handlerPc,
                   lockVars>>

\* h.clientsMutex.RUnlock(), then return or go on to the select.
CallerRUnlock(p) ==
    /\ callerPc[p] \in {"counted_0", "counted"}
    /\ lockR' = lockR \ {CallerThread(p)}
    /\ callerPc' = [callerPc EXCEPT ![p] =
                       IF callerPc[p] = "counted_0" THEN "skipped"
                       ELSE "rt_select"]
    /\ LockFrame
    /\ UNCHANGED <<clients, broadcast, hubPc, hubConn, closeCount, handlerPc,
                   lockW, healthPc>>

\* The caller's non-blocking send, as in BroadcastRealtimeDataSelect.
CallerSend(p) ==
    /\ callerPc[p] = "rt_select"
    /\ broadcast' = TrySend(broadcast, accepted).queue
    /\ callerPc' = [callerPc EXCEPT ![p] =
                       IF TrySend(broadcast, accepted).sent THEN "sent"
                       ELSE "dropped"]
    /\ LockFrame
    /\ UNCHANGED <<clients, hubPc, hubConn, closeCount, handlerPc, lockVars>>

\* GetConnectedClients: h.clientsMutex.RLock()
GetConnectedClientsRLock ==
    /\ healthPc = "idle"
    /\ CanRLock(lockW)
    /\ lockR' = lockR \cup {HealthThread}
    /\ healthPc' = "rlocked"
    /\ LockFrame
    /\ UNCHANGED <<clients, broadcast, hubPc, hubConn, closeCount, handlerPc,
                   callerPc, lockW>>

\* return len(h.clients)
GetConnectedClientsLen ==
    /\ healthPc = "rlocked"
    /\ healthPc' = "counted"
    /\ LockFrame
    /\ UNCHANGED <<clients, broadcast, hubPc, hubConn, closeCount, handlerPc,
                   callerPc, lockW, lockR>>

\* the deferred h.clientsMutex.RUnlock()
GetConnectedClientsRUnlock ==
    /\ healthPc = "counted"
    /\ lockR' = lockR \ {HealthThread}
    /\ healthPc' = "idle"
    /\ LockFrame
    /\ UNCHANGED <<clients, broadcast, hubPc, hubConn, closeCount, handlerPc,
                   callerPc, lockW>>

NextLock ==
    \/ \E c \in Conns : HandleConnection(c)
    \/ \E c \in Conns : WelcomeOk(c)
    \/ \E c \in Conns : WelcomeFail(c)
    \/ \E c \in Conns : ReadError(c)
    \/ \E c \in Conns : RegisterLock(c)
    \/ RegisterStore
    \/ \E c \in Conns : UnregisterLock(c)
    \/ UnregisterDelete
    \/ HubUnlock
    \/ HubLogLen
    \/ \E what \in {"bc_rlocked", "tick_rlocked"} : HubRLock(what)
    \/ HubRead
    \/ HubRUnlock
    \/ \E p \in Callers : CallerRLock(p)
    \/ \E p \in Callers : CallerLen(p)
    \/ \E p \in Callers : CallerRUnlock(p)
    \/ \E p \in Callers : CallerSend(p)
    \/ GetConnectedClientsRLock
    \/ GetConnectedClientsLen
    \/ GetConnectedClientsRUnlock

\* --------------------------------- the hub loop with locks and evictions
\* BroadcastRealtimeData is called while few events are queued.
GateCallerRLock(p) ==
    /\ Len(broadcast) < MaxEvents
    /\ CallerRLock(p)

NextGate ==
    \/ \E c \in Conns : HandleConnection(c)
    \/ \E c \in Conns : WelcomeOk(c)
    \/ \E c \in Conns : WelcomeFail(c)
    \/ \E c \in Conns : ReadError(c)
    \/ \E c \in Conns : RegisterLock(c)
    \/ RegisterStore
    \/ \E c \in Conns : UnregisterLock(c)
    \/ \E c \in Conns : EvictorUnregisterLock(c)
    \/ UnregisterDelete
    \/ HubUnlock
    \/ HubLogLen
    \/ \E what \in {"bc_rlocked", "tick_rlocked"} : HubRLock(what)
    \/ HubRead
    \/ \E c \in Conns : HubSpawnEvictor(c)
    \/ HubRUnlock
    \/ \E p \in Callers : GateCallerRLock(p)
    \/ \E p \in Callers : CallerLen(p)
    \/ \E p \in Callers : CallerRUnlock(p)
    \/ \E p \in Callers : CallerSend(p)
    \/ GetConnectedClientsRLock
    \/ GetConnectedClientsLen
    \/ GetConnectedClientsRUnlock

\* ------------------------------------------- updateDeviceStatus in steps
\* The device all callers of this part report.
TouchedDevice == "dev1"

\* A mutex that lets every caller in.
StatusCanLock_Always(holder) == TRUE

\* s.statusMutex.Lock() returns while no goroutine holds the mutex.
StatusCanLock(holder) == holder = 0

TouchFrame == UNCHANGED <<hubVars, setVars, lockVars, wireVars, clientVars,
                          insertVars,
                   evalVars,
                          wsBroadcaster, subscribed, nextSweep, saveCalls,
                          stored, received, lastPayload, lastOutcome,
                          lastCalls, held>>

\* updateDeviceStatus: s.statusMutex.Lock()
TouchLock(t) ==
    /\ touchPc[t] = "idle"
    /\ StatusCanLock(statusLock)
    /\ statusLock' = t
    /\ touchPc' = [touchPc EXCEPT ![t] = "locked"]
    /\ TouchFrame
    /\ UNCHANGED <<deviceStatus, statusObj, now, touchTime, touchLog,
                   sweepPc, sweepNow>>

\* &models.DeviceStatus{..., LastSeen: time.Now().UnixMilli()}: the clock
\* is read and the object built.
TouchNow(t) ==
    /\ touchPc[t] = "locked"
    /\ touchTime' = [touchTime EXCEPT ![t] = UnixMilli]
    /\ touchPc' = [touchPc EXCEPT ![t] = "built"]
    /\ TouchFrame
    /\ UNCHANGED <<deviceStatus, statusObj, now, statusLock, touchLog,
                   sweepPc, sweepNow>>

\* s.deviceStatus[deviceID] = (the object built)
TouchStore(t) ==
    /\ touchPc[t] = "built"
    /\ deviceStatus' = updateDeviceStatus(deviceStatus, TouchedDevice,
                                          "online", touchTime[t])
    /\ statusObj' = NewStatusObject(statusObj, TouchedDevice, t)
    /\ touchLog' = Append(touchLog, t)
    /\ touchPc' = [touchPc EXCEPT ![t] = "stored"]
    /\ TouchFrame
    /\ UNCHANGED <<now, statusLock, touchTime, sweepPc, sweepNow>>

\* defer s.statusMutex.Unlock()
TouchUnlock(t) ==
    /\ touchPc[t] = "stored"
    /\ statusLock' = 0
    /\ touchPc' = [touchPc EXCEPT ![t] = "done"]
    /\ TouchFrame
    /\ UNCHANGED <<deviceStatus, statusObj, now, touchTime, touchLog,
                   sweepPc, sweepNow>>

\* GetDeviceStatus(deviceID) by an observer: RLock, the map read, RUnlock.
TouchObserve ==
    /\ StatusCanLock(statusLock)
    /\ GetDeviceStatus(TouchedDevice)

NextTouch ==
    \/ \E t \in Touchers : TouchLock(t)
    \/ \E t \in Touchers : TouchNow(t)
    \/ \E t \in Touchers : TouchStore(t)
    \/ \E t \in Touchers : TouchUnlock(t)
    \/ TouchObserve
    \/ \E d \in {1, SweepIntervalMs} : ClockAdvance(d)

\* ------------------------------------------- the sweep beside the callers
\* The goroutine of checkDeviceStatus, as a holder of statusMutex.
Sweeper == NumTouchers + 1

\* The range loop over s.deviceStatus with the clock value nowMs.
SweepTable(table, nowMs) ==
    [d \in DOMAIN table |-> SweepRecord(table[d], nowMs)]

\* checkDeviceStatus, for range ticker.C: s.statusMutex.Lock()
SweepLock ==
    /\ sweepPc = "idle"
    /\ StatusCanLock(statusLock)
    /\ statusLock' = Sweeper
    /\ sweepPc' = "locked"
    /\ TouchFrame
    /\ UNCHANGED <<deviceStatus, statusObj, now, touchPc, touchTime,
                   touchLog, sweepNow>>

\* now := time.Now().UnixMilli()
SweepNow ==
    /\ sweepPc = "locked"
    /\ sweepNow' = UnixMilli
    /\ sweepPc' = "read"
    /\ UNCHANGED <<hubVars, ingestVars, queryVars, setVars, lockVars,
                   wireVars, clientVars, insertVars, evalVars, touchPc,
                   statusLock,
                   touchTime, touchLog>>

\* for deviceID, status := range s.deviceStatus { if now-status.LastSeen >
\* 60000 && status.Status == "online" { status.Status = "offline" } }
SweepRange ==
    /\ sweepPc = "read"
    /\ deviceStatus' = SweepTable(deviceStatus, sweepNow)
    /\ held' = { IF IsMapObject(h) THEN SweepHeld(h, sweepNow) ELSE h :
                   h \in held }
    /\ sweepPc' = "swept"
    /\ UNCHANGED <<hubVars, setVars, lockVars, wireVars, clientVars, insertVars,
                   evalVars, wsBroadcaster, subscribed, nextSweep,
                   saveCalls, stored, received, lastPayload, lastOutcome,
                   lastCalls, statusObj, now, touchPc, statusLock,
                   touchTime, touchLog, sweepNow>>

\* s.statusMutex.Unlock(); the loop waits for the next tick.
SweepUnlock ==
    /\ sweepPc = "swept"
    /\ statusLock' = 0
    /\ sweepPc' = "idle"
    /\ TouchFrame
    /\ UNCHANGED <<deviceStatus, statusObj, now, touchPc, touchTime,
                   touchLog, sweepNow>>

NextTouchSweep ==
    \/ \E t \in Touchers : TouchLock(t)
    \/ \E t \in Touchers : TouchNow(t)
    \/ \E t \in Touchers : TouchStore(t)
    \/ \E t \in Touchers : TouchUnlock(t)
    \/ TouchObserve
    \/ \E d \in {1, SweepIntervalMs} : ClockAdvance(d)
    \/ SweepLock
    \/ SweepNow
    \/ SweepRange
    \/ SweepUnlock

\* ------------------------------------------------- the order of events
OrderFrame == UNCHANGED <<ingestVars, queryVars, setVars, lockVars,
                          touchVars, clientVars, insertVars, evalVars, hubConn,
                   closeCount, callerPc>>

\* HandleConnection: err := c.WriteJSON(welcomeMsg) is called on c and
\* returns r.
WriteWelcome(c, r) ==
    /\ handlerPc[c] = "welcome"
    /\ greeted' = [greeted EXCEPT ![c] = Append(@, r)]
    /\ handlerPc' = [handlerPc EXCEPT ![c] = AfterWelcome(r)]
    /\ OrderFrame
    /\ UNCHANGED <<clients, broadcast, hubPc, hubMsg, hubTodo, passWrites,
                   evictors, accepted, wire>>

\* BroadcastRealtimeData(data) as one call, data being the event number
\* `accepted`; the number goes up when the channel took the event.
CallBroadcast(p) ==
    /\ accepted < MaxEvents
    /\ callerPc[p] \in Resting
    /\ broadcast' = BroadcastCall(ClientCount, broadcast, accepted)
    /\ accepted' = IF broadcast' = broadcast THEN accepted ELSE accepted + 1
    /\ OrderFrame
    /\ UNCHANGED <<clients, hubPc, hubMsg, hubTodo, passWrites, evictors,
                   handlerPc, wireVars>>

\* for conn := range h.clients: conn.WriteJSON(message) is called on c and
\* returns r.
DispatchWrite(c, r) ==
    /\ hubPc = "range"
    /\ c \in hubTodo
    /\ r = "err" => evictors[c] < MaxEvictors
    /\ hubTodo' = IF r = "err" THEN TodoAfterFail(hubTodo \ {c})
                  ELSE hubTodo \ {c}
    /\ wire' = [wire EXCEPT ![c] = @ \o hubMsg]
    /\ passWrites' = [passWrites EXCEPT ![c] = Append(@, r)]
    /\ evictors' = [evictors EXCEPT ![c] = IF r = "err" THEN @ + 1 ELSE @]
    /\ OrderFrame
    /\ UNCHANGED <<clients, broadcast, hubPc, hubMsg, accepted, handlerPc,
                   greeted>>

NextOrder ==
    \/ \E c \in Conns : HandleConnection(c)
    \/ \E c \in Conns : HubRegister(c)
    \/ \E c \in Conns, r \in {"ok", "err"} : WriteWelcome(c, r)
    \/ \E c \in Conns : ReadError(c)
    \/ \E c \in Conns : HubUnregisterHandler(c)
    \/ \E c \in Conns : HubUnregisterEvictor(c)
    \/ \E p \in Callers : CallBroadcast(p)
    \/ HubDequeue
    \/ \E c \in Conns, r \in {"ok", "err"} : DispatchWrite(c, r)
    \/ HubRangeDone

\* ------------------------------------------------- the sweep on time
\* The readings sent while the sweep is watched: one of a named device, one
\* without a device id, one that validation rejects.
SweptReadings ==
    { [topic |-> <<"test">>, payload |-> pl] :
        pl \in { Payload("dev1", NoTimestamp, 220, 5, 100),
                 Payload("", NoTimestamp, 220, 5, 100),
                 Payload("dev1", NoTimestamp, -1, 5, 100) } }

\* for range ticker.C: a tick is due and its pass has not run yet.
SweepDue == subscribed /\ now >= nextSweep

\* The goroutine of checkDeviceStatus handles a tick no later than
\* MaxJitterMs after the ticker sent it.
SweepOnTime(d) == subscribed => now + d <= nextSweep + MaxJitterMs

\* The clock moves while no tick is left waiting for longer than that.
ClockOnTime(d) == SweepOnTime(d) /\ ClockAdvance(d)

NextSweep ==
    \/ SetWebSocketBroadcaster
    \/ SubscribeToEnergyData
    \/ \E m \in SweptReadings, dbFails \in BOOLEAN : OnMessage(m, dbFails)
    \/ checkDeviceStatus
    \/ \E d \in {1, SweepIntervalMs} : ClockOnTime(d)

\* ------------------------------------------------- writes in two steps
WriteFrame ==
    UNCHANGED <<ingestVars, queryVars, setVars, lockVars, wireVars,
                touchVars, clientVars, insertVars, evalVars,
                clients, broadcast, hubPc, hubMsg, hubTodo, hubConn,
                passWrites, evictors, closeCount, callerPc, accepted>>

\* HandleConnection: the handler enters c.WriteJSON(welcomeMsg).
WelcomeBegin(c) ==
    /\ handlerPc[c] = "welcome"
    /\ handlerPc' = [handlerPc EXCEPT ![c] = "welcoming"]
    /\ WriteFrame

\* HandleConnection: c.WriteJSON(welcomeMsg) returns r.
WelcomeReturn(c, r) ==
    /\ handlerPc[c] = "welcoming"
    /\ handlerPc' = [handlerPc EXCEPT ![c] = AfterWelcome(r)]
    /\ WriteFrame

NextWrite ==
    \/ \E p \in Callers : BroadcastRealtimeDataBegin(p)
    \/ \E p \in Callers : BroadcastRealtimeDataSelect(p)
    \/ \E c \in Conns : HandleConnection(c)
    \/ \E c \in Conns : HubRegister(c)
    \/ \E c \in Conns : WelcomeBegin(c)
    \/ \E c \in Conns, r \in {"ok", "err"} : WelcomeReturn(c, r)
    \/ \E c \in Conns : ReadError(c)
    \/ \E c \in Conns : HubUnregisterHandler(c)
    \/ \E c \in Conns : HubUnregisterEvictor(c)
    \/ HubDequeue
    \/ \E c \in Conns : HubWriteBegin(c)
    \/ HubWriteOk
    \/ HubWriteFail
    \/ HubRangeDone

\* ------------------------------------------------- the browser client
\* this.maxReconnectAttempts = 5
maxReconnectAttempts == 5

\* A client that gives up one failure later.
ReconnectExhausted_After(n) == n > maxReconnectAttempts

\* if (this.reconnectAttempts >= this.maxReconnectAttempts) { return; }
ReconnectExhausted(n) == n >= maxReconnectAttempts

\* scheduleReconnect(): count the attempt and set a timer, unless exhausted.
scheduleReconnect(c) ==
    IF ReconnectExhausted(c.reconnectAttempts) THEN c
    ELSE [c EXCEPT !.reconnectAttempts = @ + 1, !.timers = @ + 1]

\* connect(): nothing when this.ws is open; otherwise a new socket replaces
\* this.ws, or new WebSocket(url) throws and a reconnect is scheduled.
connect(c, throws) ==
    IF c.ws = "open" THEN c
    ELSE IF throws THEN scheduleReconnect(c)
    ELSE [c EXCEPT !.ws = "connecting",
                   !.orphans.connecting =
                       IF c.ws = "connecting" THEN @ + 1 ELSE @]

\* handleOpen()
handleOpen(c) == [c EXCEPT !.reconnectAttempts = 0]

\* handleClose(event)
handleClose(c) ==
    IF ~c.isIntentionallyClosed THEN scheduleReconnect(c) ELSE c

\* close(): the socket this.ws refers to starts closing and is let go.
close(c) ==
    [c EXCEPT !.isIntentionallyClosed = TRUE,
              !.ws = "null",
              !.orphans.closing =
                  IF c.ws \in {"connecting", "open"} THEN @ + 1 ELSE @]

\* The sockets whose handlers can still run.
LiveSockets(c) ==
    (IF c.ws \in {"connecting", "open"} THEN 1 ELSE 0)
        + c.orphans.connecting + c.orphans.open + c.orphans.closing

ClientFrame ==
    UNCHANGED <<hubVars, ingestVars, queryVars, setVars, lockVars, wireVars,
                touchVars, insertVars, evalVars>>

\* The reconnects scheduled since the last open, after a step from c to d
\* in which no socket opened.
Scheduled(c, d) == IF d.timers > c.timers THEN clientLog + 1 ELSE clientLog

\* The page calls connect().
UserConnect(throws) ==
    /\ LiveSockets(client) < MaxSockets
    /\ client.timers < MaxTimers
    /\ client' = connect(client, throws)
    /\ clientLog' = Scheduled(client, client')
    /\ ClientFrame

\* setTimeout(() => { this.connect(); }, this.reconnectDelay) runs.
TimerFires(throws) ==
    /\ client.timers > 0
    /\ LiveSockets(client) < MaxSockets
    /\ LET fired == [client EXCEPT !.timers = @ - 1]
       IN  /\ client' = connect(fired, throws)
           /\ clientLog' = Scheduled(fired, client')
    /\ ClientFrame

\* this.ws.onopen: the socket this.ws refers to opens.
SocketOpens ==
    /\ client.ws = "connecting"
    /\ client' = handleOpen([client EXCEPT !.ws = "open"])
    /\ clientLog' = 0
    /\ ClientFrame

\* onopen of a socket that was replaced while it was connecting.
OrphanOpens ==
    /\ client.orphans.connecting > 0
    /\ client' = handleOpen([client EXCEPT !.orphans.connecting = @ - 1,
                                           !.orphans.open = @ + 1])
    /\ clientLog' = 0
    /\ ClientFrame

\* this.ws.onclose: the socket this.ws refers to fails or is closed by the
\* server.
SocketCloses ==
    /\ client.ws \in {"connecting", "open"}
    /\ client.timers < MaxTimers
    /\ LET closed == [client EXCEPT !.ws = "closed"]
       IN  /\ client' = handleClose(closed)
           /\ clientLog' = Scheduled(closed, client')
    /\ ClientFrame

\* onclose of a socket the object no longer refers to.
OrphanCloses(st) ==
    /\ client.orphans[st] > 0
    /\ client.timers < MaxTimers
    /\ LET closed == [client EXCEPT !.orphans[st] = @ - 1]
       IN  /\ client' = handleClose(closed)
           /\ clientLog' = Scheduled(closed, client')
    /\ ClientFrame

\* The page calls close().
UserClose ==
    /\ client' = close(client)
    /\ clientLog' = clientLog
    /\ ClientFrame

NextClient ==
    \/ \E throws \in BOOLEAN : UserConnect(throws)
    \/ \E throws \in BOOLEAN : TimerFires(throws)
    \/ SocketOpens
    \/ OrphanOpens
    \/ SocketCloses
    \/ \E st \in {"connecting", "open", "closing"} : OrphanCloses(st)
    \/ UserClose

\* ------------------------------------------------- the time-series store
\* err.Error() of the errors the session and Connect return, word by word.
ErrorTexts ==
    { <<"session", "closed">>, <<"the", "statement", "expired">>,
      <<"id", "doesn't", "exist">>, <<"session">>,
      <<"connection", "refused">>, <<"timeout">> }

\* What (*db.session).InsertRecord returns: a status with its code and no
\* error, or an error.
InsertResults ==
    { [code |-> c, err |-> NoError] : c \in {200, 500} }
    \cup { [code |-> 0, err |-> e] : e \in ErrorTexts }

InsertInputs ==
    [enabled : BOOLEAN, Timestamp : {Zero64, I64(1700000, 0)},
     first : InsertResults,
     reconnect : {NoError, <<"connection", "refused">>},
     retry : InsertResults]

\* containsMiddle(s, substr)
containsMiddle(s, substr) ==
    \E i \in 0..(Len(s) - Len(substr)) :
        SubSeq(s, i + 1, i + Len(substr)) = substr

\* contains(s, substr)
contains(s, substr) ==
    /\ Len(s) >= Len(substr)
    /\ \/ s = substr
       \/ /\ Len(s) > Len(substr)
          /\ \/ SubSeq(s, 1, Len(substr)) = substr
             \/ SubSeq(s, Len(s) - Len(substr) + 1, Len(s)) = substr
             \/ containsMiddle(s, substr)

\* A store that takes every error for a session error.
IsSessionError_Any(errMsg) == TRUE

\* contains(errMsg, "doesn't exist") || contains(errMsg, "session") ||
\* contains(errMsg, "statement")
IsSessionError(errMsg) ==
    \/ contains(errMsg, <<"doesn't", "exist">>)
    \/ contains(errMsg, <<"session">>)
    \/ contains(errMsg, <<"statement">>)

\* One call made on the session or on the store while InsertData runs.
StoreCall(op, timestamp) == [op |-> op, timestamp |-> timestamp]

\* fmt.Errorf("IoTDB reconnect failed: %w", reconnectErr)
ReconnectFailed(reconnectErr) ==
    <<"IoTDB", "reconnect", "failed:">> \o reconnectErr

\* InsertData(data): the error it returns and the calls it makes, given
\* what the first InsertRecord, Connect and the second InsertRecord answer.
InsertData(in, nowMs) ==
    LET timestamp == IF in.Timestamp = Zero64 THEN nowMs ELSE in.Timestamp
        ins  == StoreCall("InsertRecord", timestamp)
        cls  == StoreCall("Close", Zero64)
        conn == StoreCall("Connect", Zero64)
    IN  IF ~in.enabled THEN [err |-> NoError, calls |-> <<>>]
        ELSE IF in.first.err = NoError
        THEN [err |-> NoError, calls |-> <<ins>>]
        ELSE IF ~IsSessionError(in.first.err)
        THEN [err |-> in.first.err, calls |-> <<ins>>]
        ELSE IF in.reconnect # NoError
        THEN [err |-> ReconnectFailed(in.reconnect),
              calls |-> <<ins, cls, conn>>]
        ELSE [err |-> in.retry.err,
              calls |-> <<ins, cls, conn, ins>>]

InitInsert ==
    /\ InitHub
    /\ InitIngest
    /\ InitQuery
    /\ InitEvalIdle
    /\ insIn \in InsertInputs
    /\ insOut = NotInserted

\* err := db.InsertData(data)
CallInsertData ==
    /\ ~insOut.done
    /\ LET r == InsertData(insIn, UnixMilli)
       IN  insOut' = [done |-> TRUE, err |-> r.err, calls |-> r.calls]
    /\ UNCHANGED <<hubVars, ingestVars, queryVars, setVars, lockVars,
                   wireVars, touchVars, clientVars, evalVars,
                   insIn>>

NextInsert == CallInsertData

\* ------------------------------------------------- the threshold evaluator
PowerReadings == {0, 2200, 2201, 2500}

CurrentReadings == {0, 10, 11, 12}

VoltageReadings == {1, 199, 200, 220, 240, 241}

Readings ==
    [Timestamp : {I64(1700000, 0)}, Voltage : VoltageReadings,
     Current : CurrentReadings, Power : PowerReadings]

InitEval ==
    /\ InitHub
    /\ InitIngest
    /\ InitQuery
    /\ InitInsertIdle
    /\ evalIn \in Readings
    /\ evalOut = NotEvaluated

\* alert := s.energyService.CheckThresholdAlert(deviceID, data)
Evaluate ==
    /\ ~evalOut.done
    /\ evalOut' = [done |-> TRUE, alert |-> CheckThresholdAlert("dev1", evalIn)]
    /\ UNCHANGED <<hubVars, ingestVars, queryVars, setVars, lockVars,
                   wireVars, touchVars, clientVars, insertVars, evalIn>>

NextEval == Evaluate

\* The steps of the runHub goroutine.
HubStep ==
    \/ \E c \in Conns : HubRegister(c)
    \/ \E c \in Conns : HubUnregisterHandler(c)
    \/ \E c \in Conns : HubUnregisterEvictor(c)
    \/ HubDequeue
    \/ \E c \in Conns : HubWriteBegin(c)
    \/ HubWriteOk
    \/ HubWriteFail
    \/ HubRangeDone
    \/ HubTick

Next ==
    \/ \E p \in Callers : BroadcastRealtimeDataBegin(p)
    \/ \E p \in Callers : BroadcastRealtimeDataSelect(p)
    \/ \E p \in Callers : BroadcastAlertBegin(p)
    \/ \E p \in Callers : BroadcastAlertSelect(p)
    \/ \E c \in Conns : HandleConnection(c)
    \/ \E c \in Conns : WelcomeOk(c)
    \/ \E c \in Conns : WelcomeFail(c)
    \/ \E c \in Conns : ReadError(c)
    \/ \E c \in Conns : HubRegister(c)
    \/ \E c \in Conns : HubUnregisterHandler(c)
    \/ \E c \in Conns : HubUnregisterEvictor(c)
    \/ HubDequeue
    \/ \E c \in Conns : HubWriteBegin(c)
    \/ HubWriteOk
    \/ HubWriteFail
    \/ HubRangeDone
    \/ HubTick

Init == InitHub /\ InitIngest /\ InitQuery /\ InitEvalIdle /\ InitInsertIdle

Spec == Init /\ [][Next]_vars

\* select chooses at random among the cases that are ready, so a case that
\* is ready at the select again and again is taken; the hub goroutine, once
\* inside the range loop, goes on to the next call and to the end of the
\* loop.  Nothing makes conn.WriteJSON return: no write deadline is set.
HubFairness ==
    /\ \A c \in Conns : SF_vars(HubRegister(c))
    /\ \A c \in Conns : SF_vars(HubUnregisterHandler(c))
    /\ \A c \in Conns : SF_vars(HubUnregisterEvictor(c))
    /\ SF_vars(HubDequeue)
    /\ \A c \in Conns : WF_vars(HubWriteBegin(c))
    /\ WF_vars(HubRangeDone)

SpecFair == Init /\ [][Next]_vars /\ HubFairness

SpecIngest == Init /\ [][NextIngest]_vars

SpecStatus == Init /\ [][NextStatus]_vars

SpecSet == InitSet /\ [][NextSet]_vars

SpecLock == Init /\ [][NextLock]_vars

SpecOrder == Init /\ [][NextOrder]_vars

\* The hub loop keeps taking steps: its select chooses at random among the
\* ready cases, so a case that is ready again and again is taken; a write
\* returns; the range loop goes on. A handler's read or write on a
\* connection the hub has closed returns an error.
OrderFairness ==
    /\ \A c \in Conns : SF_vars(HubRegister(c))
    /\ \A c \in Conns : SF_vars(HubUnregisterHandler(c))
    /\ \A c \in Conns : SF_vars(HubUnregisterEvictor(c))
    /\ SF_vars(HubDequeue)
    /\ \A c \in Conns : WF_vars(\E r \in {"ok", "err"} : DispatchWrite(c, r))
    /\ WF_vars(HubRangeDone)
    /\ \A c \in Conns : WF_vars(closeCount[c] > 0 /\ ReadError(c))
    /\ \A c \in Conns : WF_vars(closeCount[c] > 0 /\ WriteWelcome(c, "err"))

SpecOrderFair == Init /\ [][NextOrder]_vars /\ OrderFairness

SpecGate == Init /\ [][NextGate]_vars

SpecTouch == Init /\ [][NextTouch]_vars

SpecTouchSweep == Init /\ [][NextTouchSweep]_vars

SpecSweep == Init /\ [][NextSweep]_vars

\* Time passes, and the sweeping goroutine gets the processor and the
\* mutex: sync.RWMutex does not starve a writer.
SweepFairness ==
    /\ WF_vars(checkDeviceStatus)
    /\ WF_vars(\E d \in {1, SweepIntervalMs} : ClockOnTime(d))

SpecSweepFair == Init /\ [][NextSweep]_vars /\ SweepFairness

SpecWrite == Init /\ [][NextWrite]_vars

SpecClient == Init /\ [][NextClient]_vars

SpecInsert == InitInsert /\ [][NextInsert]_vars

SpecEval == InitEval /\ [][NextEval]_vars

\* ===================================================================
\* Properties of the hub (checked under Spec)
\* ===================================================================
Selecting == {"rt_select", "alert_select"}

\* The non-blocking send of caller p, whichever function it is in.
CallerSelect(p) == BroadcastRealtimeDataSelect(p) \/ BroadcastAlertSelect(p)

\* Caller p may enter either function.
CallerBegin(p) == BroadcastRealtimeDataBegin(p) \/ BroadcastAlertBegin(p)

\* Caller p's call returns in this step.
CallReturns(p) ==
    /\ callerPc'[p] \in Resting
    /\ callerPc'[p] # callerPc[p]

\* The send of caller p drops on the full queue and enqueues otherwise.
SendOutcome(p) ==
    (callerPc[p] \in Selecting /\ CallReturns(p)) =>
        IF Len(broadcast) = BroadcastCap
        THEN broadcast' = broadcast /\ callerPc'[p] = "dropped"
        ELSE broadcast' = Append(broadcast, accepted) /\ callerPc'[p] = "sent"

\* A call of caller p that returns before the send found no session.
SkipOutcome(p) ==
    (callerPc[p] \in Resting /\ CallReturns(p)) =>
        (clients = {} /\ broadcast' = broadcast /\ callerPc'[p] = "skipped")

\* C1 (as amended): BroadcastRealtimeData and BroadcastAlert never block
\* their caller, in every hub state (the hub loop inside a viewer write
\* included): a caller at the send can always take it, and a caller at rest
\* can always make a call. A send made while the queue holds its 100 events
\* returns without enqueuing (the event is dropped); a send made while the
\* queue has room enqueues the event at the tail and returns. A call that
\* returns without reaching the send found no session registered, and leaves
\* the queue as it was.
C1_BroadcastNeverBlocks ==
    /\ [](\A p \in Callers :
            /\ callerPc[p] \in Selecting => ENABLED CallerSelect(p)
            /\ callerPc[p] \in Resting => ENABLED CallerBegin(p))
    /\ [][\A p \in Callers : SendOutcome(p) /\ SkipOutcome(p)]_vars

\* C1, witness: a call was dropped on the full queue while the hub loop was
\* inside a viewer write.
C1_Witness ==
    /\ Len(broadcast) = BroadcastCap
    /\ hubPc = "write"
    /\ \E p \in Callers : callerPc[p] = "dropped"

\* C1 as stated: every call that returns either found the queue full and
\* left it alone, or found room and enqueued its event.
C1_AsStated ==
    [][\A p \in Callers : CallReturns(p) =>
            IF Len(broadcast) = BroadcastCap
            THEN broadcast' = broadcast
            ELSE broadcast' = Append(broadcast, accepted)]_vars

\* The pass is over: the range loop has visited every connection.
PassOver == hubPc = "range" /\ hubTodo = {}

\* A step taken during a pass leaves the session set alone, and the message
\* of the pass too until the pass returns to the select.
PassFrame ==
    hubPc \in {"range", "write"} =>
        (clients' = clients /\ (hubPc' # "select" => hubMsg' = hubMsg))

\* C2: when the hub loop dispatches one queued event it makes exactly one
\* WriteJSON call of that event on every session in the session set at
\* dispatch time and on no other session; the session set does not change
\* during the pass, and a failed write neither skips nor aborts the writes
\* to the sessions not yet visited.
C2_OneWritePerSession ==
    /\ [](hubPc \in {"range", "write"} =>
            /\ Len(hubMsg) = 1
            /\ hubTodo \subseteq clients
            /\ \A c \in Conns :
                  Len(passWrites[c]) =
                      IF c \in clients \ hubTodo THEN 1 ELSE 0)
    /\ [](PassOver => \A c \in Conns :
            Len(passWrites[c]) = IF c \in clients THEN 1 ELSE 0)
    /\ [][PassFrame]_vars

\* C2, witness: a pass over two sessions ends with one failed and one
\* successful write.
C2_Witness ==
    /\ PassOver
    /\ \E a, b \in clients :
          /\ passWrites[a] = <<"ok">>
          /\ passWrites[b] = <<"err">>

\* C3: a session whose broadcast write failed is out of the session set
\* before the next queued event is dispatched, so no later pass writes to
\* it: whenever a pass is under way, a session still in the set with an
\* eviction pending failed in this very pass.
C3_EvictedBeforeNextDispatch ==
    hubPc \in {"range", "write"} =>
        \A c \in clients :
            evictors[c] > 0 =>
                /\ passWrites[c] # <<>>
                /\ passWrites[c][Len(passWrites[c])] = "err"

\* Work the hub loop has been asked to do and has not done.
PendingWork ==
    \/ hubTodo # {}
    \/ broadcast # <<>>
    \/ \E c \in Conns : handlerPc[c] \in {"register", "unregister"}
    \/ \E c \in Conns : evictors[c] > 0

\* The hub loop serves something other than the write it is inside.
HubServesOthers ==
    \/ \E c \in Conns : HubRegister(c)
    \/ \E c \in Conns : HubUnregisterHandler(c)
    \/ \E c \in Conns : HubUnregisterEvictor(c)
    \/ HubDequeue
    \/ \E c \in Conns : HubWriteBegin(c)

\* C4: a single slow session cannot stall the others: while the write to
\* one session has not completed, the hub can still deliver to the other
\* sessions and serve pending register and unregister requests.
C4_SlowSessionDoesNotStall ==
    (hubPc = "write" /\ PendingWork) => ENABLED HubServesOthers

\* ------------------------------------------------------------- ingest
\* The payloads the pipeline is to reject: not decodable, or a reading with
\* voltage <= 0, current < 0 or power < 0.
Rejected(payload) ==
    \/ payload.json = "bad"
    \/ payload.voltage <= 0
    \/ payload.current < 0
    \/ payload.power < 0

\* A step in which handleEnergyMessage handles a message.
MessageStep == received' = received + 1

RejectedLeavesNoTrace ==
    (MessageStep /\ Rejected(lastPayload'[1])) =>
        /\ lastCalls' = <<>>
        /\ saveCalls' = saveCalls
        /\ stored' = stored
        /\ deviceStatus' = deviceStatus
        /\ broadcast' = broadcast

\* C5: for every rejected inbound message (undecodable payload, voltage
\* <= 0, current < 0 or power < 0) handleEnergyMessage makes no storage
\* call, no BroadcastAlert and no BroadcastRealtimeData call, and leaves the
\* device-status table, the stored readings and the broadcast queue exactly
\* as they were.
C5_RejectedMessageHasNoEffect ==
    [][RejectedLeavesNoTrace]_vars

\* C5, witness: a message has been rejected after an earlier one left a
\* device record and a queued event behind.
C5_Witness ==
    /\ lastPayload # <<>> /\ Rejected(lastPayload[1])
    /\ received = MaxMsgs
    /\ DOMAIN deviceStatus # {}
    /\ Len(broadcast) > 0

SaveFailed(calls) ==
    calls # <<>> /\ calls[1].op = "SaveEnergyData" /\ calls[1].err

SaveFailureDoesNotAbort ==
    (MessageStep /\ ~Rejected(lastPayload'[1]) /\ SaveFailed(lastCalls')) =>
        LET ok == Pipeline(lastPayload'[1], FALSE)
            id == DefaultDeviceID(lastPayload'[1].device_id)
        IN  /\ stored' = stored
            /\ deviceStatus' = ok.deviceStatus
            /\ deviceStatus'[id].Status = "online"
            /\ deviceStatus'[id].LastSeen = UnixMilli
            /\ broadcast' = ok.broadcast
            /\ Tail(lastCalls') = Tail(ok.calls)
            /\ lastCalls'[Len(lastCalls')].op = "BroadcastRealtimeData"

\* C6: for every valid reading, when SaveEnergyData returns an error the
\* pipeline goes on: the device is touched as online and the realtime
\* reading, and the alert if one fires, is handed to the hub exactly as
\* when the save succeeds.
C6_StorageFailureDoesNotAbort ==
    [][SaveFailureDoesNotAbort]_vars

\* C6, witness: the save of the last reading failed, nothing is stored, and
\* its alert and its realtime event are in the queue.
C6_Witness ==
    /\ lastPayload # <<>> /\ ~Rejected(lastPayload[1])
    /\ SaveFailed(lastCalls)
    /\ stored = {}
    /\ Len(lastCalls) = 5
    /\ lastCalls[4].op = "BroadcastAlert"
    /\ Len(broadcast) >= 2
    /\ broadcast[Len(broadcast) - 1] = lastCalls[4].arg
    /\ broadcast[Len(broadcast)] = lastCalls[5].arg

\* A step of the sweep goroutine.
SweepStep == subscribed /\ nextSweep' = nextSweep + SweepIntervalMs

SweepEffect ==
    SweepStep =>
        /\ DOMAIN deviceStatus' = DOMAIN deviceStatus
        /\ \A d \in DOMAIN deviceStatus :
              LET old == deviceStatus[d]
                  new == deviceStatus'[d]
                  due == /\ old.Status = "online"
                         /\ Sub64(UnixMilli, old.LastSeen) > 60000
              IN  /\ new.LastSeen = old.LastSeen
                  /\ due => new = [old EXCEPT !.Status = "offline"]
                  /\ ~due => new = old

\* C7: one sweep pass sets a tracked device to offline if and only if its
\* status is online and now - last_seen is strictly greater than 60000 ms;
\* every other record is left unchanged, and no sweep modifies last_seen.
C7_SweepMarksStaleOffline == [][SweepEffect]_vars

\* C7, witness: a sweep has set one device offline while a device seen
\* exactly 60000 ms before it stayed online.
C7_Witness ==
    \E a, b \in DOMAIN deviceStatus :
        /\ deviceStatus[a].Status = "offline"
        /\ deviceStatus[b].Status = "online"
        /\ Sub64(UnixMilli, deviceStatus[b].LastSeen) = 60000

\* The alert type the priority order gives a reading, "none" for no alert.
PriorityAlert(data) ==
    IF data.Power > 2200 THEN "high_power"
    ELSE IF data.Current > 10 THEN "high_current"
    ELSE IF data.Voltage < 200 \/ data.Voltage > 240 THEN "voltage_abnormal"
    ELSE "none"

ReturnedAlert == IF evalOut.alert = <<>> THEN "none"
                 ELSE evalOut.alert[1].AlertType

\* C8: CheckThresholdAlert returns at most one alert, chosen in the order
\* high_power (power > 2200), high_current (current > 10), voltage_abnormal
\* (voltage < 200 or > 240), else none; power > 2200 with current > 10
\* gives high_power, and a reading exactly at a limit gives no alert for
\* that limit.
C8_ThresholdPriority ==
    evalOut.done =>
        /\ Len(evalOut.alert) <= 1
        /\ ReturnedAlert = PriorityAlert(evalIn)
        /\ (evalIn.Power > 2200 /\ evalIn.Current > 10) =>
              ReturnedAlert = "high_power"
        /\ evalIn.Power = 2200 => ReturnedAlert # "high_power"
        /\ evalIn.Current = 10 => ReturnedAlert # "high_current"
        /\ (evalIn.Voltage \in {200, 240}) =>
              ReturnedAlert # "voltage_abnormal"

\* C8, witness: a reading over both the power and the current limit has
\* been evaluated to high_power.
C8_Witness ==
    /\ evalOut.done
    /\ evalIn.Power = 2500 /\ evalIn.Current = 12
    /\ ReturnedAlert = "high_power"

\* The timestamps the last accepted message was stored and broadcast with.
StoredTimestamp == lastCalls'[1].arg.Timestamp

BroadcastTimestamp == lastCalls'[Len(lastCalls')].arg.Timestamp

NumericResolution ==
    (MessageStep /\ ~Rejected(lastPayload'[1])) =>
        LET ts == lastPayload'[1].timestamp
            t  == ts.num
        IN  /\ (ts.kind = "number" /\ IsPos64(t)) =>
                  LET want == IF Less64(t, I64(1000000, 0))
                              THEN Mul1000(t) ELSE t
                  IN  StoredTimestamp = want /\ BroadcastTimestamp = want
            /\ ts.kind = "absent" =>
                  /\ StoredTimestamp = UnixMilli
                  /\ BroadcastTimestamp = UnixMilli

\* C9: a payload with a positive numeric timestamp t and no textual one is
\* stored and broadcast with t * 1000 when t < 10^12 and with t when
\* t >= 10^12; a payload without a timestamp is stored and broadcast with
\* the wall-clock time of processing.
C9_NumericTimestampResolution ==
    [][NumericResolution]_vars

OneSourceInOrder ==
    (MessageStep /\ ~Rejected(lastPayload'[1])) =>
        LET ts == lastPayload'[1].timestamp
            p  == ParseTimestamp(ts.text)
        IN  /\ ts.kind = "string" =>
                  StoredTimestamp = IF p.err THEN UnixMilli ELSE p.ms
            /\ (ts.kind = "number" /\ IsPos64(ts.num)) =>
                  StoredTimestamp \in {ts.num, Mul1000(ts.num)}
            /\ (ts.kind = "absent" \/ (ts.kind = "number"
                                       /\ ~IsPos64(ts.num))) =>
                  StoredTimestamp = UnixMilli
            /\ BroadcastTimestamp = StoredTimestamp

\* C10: timestamp resolution consults one source in priority order: a
\* textual timestamp alone decides the result (its parsed value, or the
\* current time when it does not parse); the numeric timestamp is used only
\* when there is no text and the number is positive; otherwise the current
\* time is used.
C10_OneTimestampSource ==
    [][OneSourceInOrder]_vars

\* ------------------------------------------------------- status queries
\* C11: GetDeviceStatus and GetAllDeviceStatus return point-in-time
\* snapshots: a value returned to a caller is not changed by any touch or
\* sweep that runs after the call returned.
C11_QueriesReturnSnapshots == \A h \in held : h.value = h.returned

\* A device record that is not online after the step was not online before
\* it, or the step is a sweep.
OfflineOnlyBySweep ==
    \A d \in DOMAIN deviceStatus' :
        deviceStatus'[d].Status # "online" =>
            \/ SweepStep
            \/ d \in DOMAIN deviceStatus /\ deviceStatus'[d] = deviceStatus[d]

\* C12: the periodic sweep is the only operation that sets a device's
\* status to offline: no message handler and no other call of
\* updateDeviceStatus stores a status other than online, so a record that is
\* not online was made so by a sweep and stays as the sweep left it.
C12_OnlySweepSetsOffline ==
    /\ [][OfflineOnlyBySweep]_vars
    /\ [](\A d \in DOMAIN deviceStatus :
            deviceStatus[d].Status \in {"online", "offline"})

\* C12, witness: a device is offline while another has been touched by a
\* later message.
C12_Witness ==
    \E a, b \in DOMAIN deviceStatus :
        /\ deviceStatus[a].Status = "offline"
        /\ deviceStatus[b].Status = "online"
        /\ Less64(deviceStatus[a].LastSeen, deviceStatus[b].LastSeen)

\* The identifier a payload's reading is recorded under.
RecordedId(payload) ==
    IF payload.device_id = "" THEN "ESP32_PZEM" ELSE payload.device_id

\* The table gains the record of an accepted reading's device and nothing
\* else; no step removes a record.
TableStep ==
    DOMAIN deviceStatus' =
        IF MessageStep /\ ~Rejected(lastPayload'[1])
        THEN DOMAIN deviceStatus \cup {RecordedId(lastPayload'[1])}
        ELSE DOMAIN deviceStatus

\* C13: after any sequence of readings, sweeps and queries the
\* device-status table holds exactly one record for each device identifier
\* that has had an accepted reading and none for any other; records are
\* never removed, and a reading with an empty device identifier is recorded
\* under ESP32_PZEM, never under the empty string.
C13_OneRecordPerDevice ==
    /\ [][TableStep]_vars
    /\ [](received = 0 => DOMAIN deviceStatus = {})
    /\ []("" \notin DOMAIN deviceStatus)
    /\ [](\A d \in DOMAIN deviceStatus : deviceStatus[d].DeviceID = d)

\* C13, witness: the same reading without a device identifier has been
\* accepted twice and the table holds the one record of ESP32_PZEM.
C13_Witness ==
    /\ received = MaxMsgs /\ saveCalls = MaxMsgs
    /\ lastPayload[1].device_id = ""
    /\ DOMAIN deviceStatus = {"ESP32_PZEM"}
    /\ statusObj["ESP32_PZEM"] = MaxMsgs

\* ---------------------------------------------------- session lifecycle
\* The hub processes an unregister request for session c.
UnregisterStep(c) ==
    \/ handlerPc[c] = "unregister" /\ handlerPc'[c] = "done"
    \/ evictors'[c] = evictors[c] - 1

UnregisterEffect(c) ==
    UnregisterStep(c) =>
        IF c \in clients
        THEN /\ clients' = clients \ {c}
             /\ closeCount' = [closeCount EXCEPT ![c] = @ + 1]
        ELSE /\ clients' = clients
             /\ closeCount' = closeCount

\* The hub has processed the register request of session c.
WasRegistered(c) == handlerPc[c] \in {"welcome", "read", "unregister", "done"}

\* C14: an unregister request for a session in the set removes it and
\* closes its transport; one for a session not in the set changes nothing
\* and closes nothing.  So however often a session is unregistered
\* (eviction after a failed write and the handler's deferred unregister),
\* the hub closes its transport exactly once.
C14_UnregisterIdempotent ==
    /\ [][\A c \in Conns : UnregisterEffect(c)]_vars
    /\ [](\A c \in Conns :
            closeCount[c] =
                IF WasRegistered(c) /\ c \notin clients THEN 1 ELSE 0)
    /\ [](\A c \in Conns : handlerPc[c] = "done" => c \notin clients)

\* C14, witness: the handler's unregister of a session has been processed,
\* an eviction of the same session is still to be processed, and the
\* transport has been closed once.
C14_Witness ==
    \E c \in Conns :
        /\ handlerPc[c] = "done"
        /\ evictors[c] > 0
        /\ c \notin clients
        /\ closeCount[c] = 1

\* The session set after the i-th request of the log.
SetAfter(i) == IF i = Len(opLog) THEN clients ELSE opLog[i + 1].before

RegisteredTwice(i) ==
    /\ opLog[i].op = "register" /\ opLog[i + 1].op = "register"
    /\ opLog[i].conn = opLog[i + 1].conn

\* C15: registering a session that is already in the set leaves the set
\* unchanged: after its register request has been processed twice the set
\* holds it once, the connected-viewer count has grown by one in total (by
\* none if it was registered before), and one later unregister request
\* removes it completely.
C15_RegisterIdempotent ==
    \A i \in 1..(Len(opLog) - 1) :
        RegisteredTwice(i) =>
            LET c == opLog[i].conn
                s0 == opLog[i].before
            IN  /\ SetAfter(i + 1) = SetAfter(i)
                /\ SetAfter(i + 1) = s0 \cup {c}
                /\ Cardinality(SetAfter(i + 1)) =
                      Cardinality(s0) + (IF c \in s0 THEN 0 ELSE 1)
                /\ (/\ i + 2 <= Len(opLog)
                    /\ opLog[i + 2] = [op |-> "unregister", conn |-> c,
                                       before |-> SetAfter(i + 1)]) =>
                        /\ c \notin SetAfter(i + 2)
                        /\ SetAfter(i + 2) = s0 \ {c}

\* C15, witness: a session not in the set has been registered twice and
\* then unregistered, next to another session that stays registered.
C15_Witness ==
    /\ Len(opLog) = 3
    /\ RegisteredTwice(1)
    /\ opLog[1].conn \notin opLog[1].before
    /\ opLog[1].before # {}
    /\ opLog[3].op = "unregister" /\ opLog[3].conn = opLog[1].conn
    /\ clients = opLog[1].before

\* Session c is disconnected: it was registered and the hub has removed it.
Disconnected(c) == WasRegistered(c) /\ c \notin clients

\* The hub starts a broadcast write to session c.
WriteStarts(c) == hubPc = "range" /\ hubPc' = "write" /\ hubConn' = {c}

OneWay(c) ==
    /\ UnregisterStep(c) => WasRegistered(c)
    /\ Disconnected(c) => (Disconnected(c)' /\ ~WriteStarts(c))

\* C16: a session's lifecycle is one-way: its unregister is never
\* processed before its register; once the hub has removed it from the set
\* and closed its transport it never re-enters the set and the hub never
\* again starts a broadcast write to it; and a session whose handler has
\* had its unregister processed is disconnected.
C16_LifecycleOneWay ==
    /\ [][\A c \in Conns : OneWay(c)]_vars
    /\ [](\A c \in Conns :
            Disconnected(c) =>
                /\ closeCount[c] = 1
                /\ c \notin hubTodo /\ c \notin hubConn)
    /\ [](\A c \in Conns : handlerPc[c] = "done" => Disconnected(c))

\* C16, witness: the hub is writing an event to one session after it has
\* removed and closed another.
C16_Witness ==
    \E a, b \in Conns :
        /\ Disconnected(a) /\ closeCount[a] = 1
        /\ hubPc = "write" /\ hubConn = {b}

\* ------------------------------------------------------------ the lock
\* The next step of the hub goroutine inserts into or deletes from the map.
HubMutates == hubPc \in {"reg_locked", "unreg_locked"}

\* The next step of the hub goroutine reads the map.
HubReads == hubPc \in {"bc_rlocked", "tick_rlocked", "unlocked"}

\* The next step of another goroutine reads the size of the map.
OthersReading ==
    {CallerThread(p) : p \in {q \in Callers : callerPc[q] = "rlocked"}}
    \cup (IF healthPc = "rlocked" THEN {HealthThread} ELSE {})

\* C17: access to the session set is serialized: the set is never inserted
\* into or deleted from while another goroutine iterates it or reads its
\* size; it is mutated only under the exclusive lock and read only under
\* the shared lock or by the one goroutine that mutates it.
C17_SessionSetSerialized ==
    /\ HubMutates => (lockW /\ lockR = {} /\ OthersReading = {})
    /\ OthersReading \subseteq lockR
    /\ OthersReading # {} => ~lockW
    /\ (HubReads /\ hubPc # "unlocked") => HubThread \in lockR
    /\ lockW => lockR = {}

\* C17, witness: the hub holds the exclusive lock for a delete while a
\* health query and a broadcast caller are inside their calls.
C17_Witness ==
    /\ hubPc = "unreg_locked" /\ lockW
    /\ hubConn \subseteq clients /\ hubConn # {}
    /\ ~ENABLED GetConnectedClientsRLock
    /\ healthPc = "idle"
    /\ \E p \in Callers : callerPc[p] = "rt_select"

\* ------------------------------------------------------------ liveness
\* C18: no event type starves another in the hub loop: under fair
\* selection among ready cases every pending register request and every
\* pending unregister request is eventually serviced, even while the
\* broadcast queue is non-empty, and a non-empty broadcast queue is
\* eventually dequeued from, even while register and unregister requests
\* keep arriving.
C18_NoStarvation ==
    /\ \A c \in Conns :
          (handlerPc[c] = "register") ~> (handlerPc[c] = "welcome")
    /\ \A c \in Conns :
          (handlerPc[c] = "unregister") ~> (handlerPc[c] = "done")
    /\ \A c \in Conns : (evictors[c] > 0) ~> (c \notin clients)
    /\ (broadcast # <<>> /\ hubPc = "select") ~> (hubPc = "range")

\* ------------------------------------------------------- event order
\* The events of q are in the order in which they were accepted.
InAcceptedOrder(q) == \A i, j \in 1..Len(q) : i < j => q[i] < q[j]

\* C19: the events written to a session are in the order in which the hub
\* dequeued them, which is the order in which the broadcast queue accepted
\* them: the queue holds its events in accepted order behind the event being
\* dispatched, and no session is written a later-accepted event before an
\* earlier-accepted one.
C19_PerSessionFifo ==
    /\ InAcceptedOrder(hubMsg \o broadcast)
    /\ \A c \in Conns :
          /\ InAcceptedOrder(wire[c])
          /\ InAcceptedOrder(wire[c] \o broadcast)
          /\ (hubPc = "range" /\ c \in hubTodo) =>
                InAcceptedOrder(wire[c] \o hubMsg)

\* C19, witness: one session has been written three events and another,
\* registered later, the last two of them.
C19_Witness ==
    \E a, b \in Conns :
        /\ wire[a] = <<0, 1, 2>>
        /\ wire[b] = <<1, 2>>

\* ------------------------------------------------ the acknowledgment
\* The hub has taken the registration of c from the register channel.
RegistrationAccepted(c) == handlerPc[c] \notin {"idle", "register"}

\* The handler of c has left HandleConnection's body for its deferred
\* unregistration, or has finished it.
HandlerEnded(c) == handlerPc[c] \in {"unregister", "done"}

\* C20: the connection acknowledgment of a session is written once, by its
\* handler and only after the hub has accepted the registration; while the
\* handler reads, and from then on, it stays written once; after a failed
\* write the handler has ended without reading, and when its unregistration
\* is through the session is out of the set.
C20_AcknowledgedOnce ==
    \A c \in Conns :
        /\ Len(greeted[c]) <= 1
        /\ greeted[c] # <<>> => RegistrationAccepted(c)
        /\ handlerPc[c] = "welcome" => greeted[c] = <<>>
        /\ handlerPc[c] = "read" => greeted[c] = <<"ok">>
        /\ HandlerEnded(c) => Len(greeted[c]) = 1
        /\ greeted[c] = <<"err">> => HandlerEnded(c)
        /\ handlerPc[c] = "done" => c \notin clients

\* C20, witness: one session was acknowledged and has been written an event
\* since; the acknowledgment of another failed, its handler has ended and it
\* is out of the set.
C20_Witness ==
    \E a, b \in Conns :
        /\ greeted[a] = <<"ok">>
        /\ wire[a] # <<>>
        /\ greeted[b] = <<"err">>
        /\ handlerPc[b] = "done"
        /\ b \notin clients

\* ------------------------------------------------- the housekeeping tick
\* The hub is inside its ticker case.
InTick(pc) == pc \in {"tick_rlocked", "tick_read"}

\* A step of the hub goroutine that enters, continues or leaves the ticker
\* case.
TickStep == hubPc' # hubPc /\ (InTick(hubPc) \/ InTick(hubPc'))

TickEffect ==
    TickStep => UNCHANGED <<clients, broadcast, closeCount, evictors,
                            handlerPc, hubMsg, hubTodo, passWrites>>

\* C21: a housekeeping tick of the hub leaves the session set, the broadcast
\* queue and every session's transport as they were: its steps remove and
\* close no session, spawn no eviction, and take no event from the queue and
\* put none into it; while the tick holds the shared lock the session set
\* does not change at all.
C21_TickChangesNothing ==
    /\ [][TickEffect]_vars
    /\ [][InTick(hubPc) => clients' = clients]_vars

\* C21, witness: the hub is inside a tick, holding the shared lock, while a
\* session is registered and an event is pending in the queue.
C21_Witness ==
    /\ hubPc = "tick_read"
    /\ HubThread \in lockR
    /\ clients # {}
    /\ broadcast # <<>>

\* ------------------------------------------------- the bounded queue
\* C22: in every reachable state the number of events pending in the
\* broadcast queue is between 0 and its capacity of 100, however many
\* calls the producers make and however long the hub stays away from its
\* select.
C22_QueueBounded == Len(broadcast) \in 0..BroadcastCap

\* C22, witness: the queue holds 100 events, a session is registered and a
\* producer's call has just found the queue full.
C22_Witness ==
    /\ Len(broadcast) = BroadcastCap
    /\ clients # {}
    /\ \E p \in Callers : callerPc[p] = "dropped"

\* ------------------------------------------------- concurrent updates
\* The record the call of t writes.
TouchRecord(t) == DeviceStatus(TouchedDevice, "online", touchTime[t])

\* The callers whose assignment has been made.
Stored == {touchLog[i] : i \in 1..Len(touchLog)}

\* C23: updateDeviceStatus calls for one device that run concurrently are
\* atomic and commute: the table never holds more than the one record of the
\* device, the record in the table and every record an observer gets is
\* wholly the record of one call, and when all calls have returned the
\* record is online with the last_seen of the call that wrote last, which is
\* no earlier than the time any call read.
C23_ConcurrentTouch ==
    /\ DOMAIN deviceStatus \subseteq {TouchedDevice}
    /\ TouchedDevice \in DOMAIN deviceStatus =>
          /\ touchLog # <<>>
          /\ deviceStatus[TouchedDevice] = TouchRecord(touchLog[Len(touchLog)])
    /\ \A h \in held : \E t \in Stored : h.value = TouchRecord(t)
    /\ (\A t \in Touchers : touchPc[t] = "done") =>
          /\ deviceStatus[TouchedDevice].Status = "online"
          /\ \A t \in Touchers :
                ~Less64(deviceStatus[TouchedDevice].LastSeen, touchTime[t])

\* C23, witness: both calls have returned, they read different times, and an
\* observer holds the record of the first while the table has the record of
\* the second.
C23_Witness ==
    /\ \A t \in Touchers : touchPc[t] = "done"
    /\ touchTime[touchLog[1]] # touchTime[touchLog[2]]
    /\ \E h \in held : h.value = TouchRecord(touchLog[1])
    /\ deviceStatus[TouchedDevice] = TouchRecord(touchLog[2])

\* ------------------------------------------------- the order of the steps
\* The names of the calls made for the last message, in call order.
Ops(calls) == [i \in 1..Len(calls) |-> calls[i].op]

WithAlert ==
    <<"SaveEnergyData", "updateDeviceStatus", "CheckThresholdAlert",
      "BroadcastAlert", "BroadcastRealtimeData">>

WithoutAlert ==
    <<"SaveEnergyData", "updateDeviceStatus", "CheckThresholdAlert",
      "BroadcastRealtimeData">>

\* What the two broadcast calls of one message leave in the queue.
Offered(q, calls) ==
    LET n == Len(calls)
        q1 == IF n = 5 THEN BroadcastCall(ClientCount, q, calls[4].arg) ELSE q
    IN  BroadcastCall(ClientCount, q1, calls[n].arg)

StepsInOrder ==
    (MessageStep /\ ~Rejected(lastPayload'[1])) =>
        /\ Len(lastCalls') >= 4
        /\ Ops(lastCalls') = IF lastCalls'[3].arg # <<>> THEN WithAlert
                             ELSE WithoutAlert
        /\ Len(lastCalls') = 5 => lastCalls'[4].arg = lastCalls'[3].arg[1]
        /\ broadcast' = Offered(broadcast, lastCalls')

\* C24: for every accepted reading the pipeline calls, in this order, the
\* storage, updateDeviceStatus(online), the threshold evaluator,
\* BroadcastAlert if and only if the evaluator returned an alert (with that
\* alert), and BroadcastRealtimeData exactly once; the alert is offered to
\* the queue before the reading of the same message.
C24_PipelineOrder == [][StepsInOrder]_vars

\* C24, witness: the last reading was stored and fired an alert; the queue
\* ends with its alert followed by its realtime event.
C24_Witness ==
    /\ lastPayload # <<>> /\ ~Rejected(lastPayload[1])
    /\ ~SaveFailed(lastCalls)
    /\ Ops(lastCalls) = WithAlert
    /\ Len(broadcast) >= 2
    /\ broadcast[Len(broadcast) - 1] = lastCalls[4].arg
    /\ broadcast[Len(broadcast)] = lastCalls[5].arg

\* ------------------------------------------------- the alert's timestamp
AlertCarriesReadingTime ==
    (MessageStep /\ ~Rejected(lastPayload'[1])
        /\ Ops(lastCalls') = WithAlert) =>
        /\ lastCalls'[4].arg.Timestamp = lastCalls'[5].arg.Timestamp
        /\ lastCalls'[4].arg.Timestamp
             = ResolveTimestamp(Unmarshal(lastPayload'[1]).msg, UnixMilli)

HubContinues ==
    \/ RegisterStore
    \/ UnregisterDelete
    \/ HubUnlock
    \/ HubLogLen
    \/ HubRead
    \/ HubRUnlock

\* The next step of a goroutine, other than the hub, that holds the lock.
HolderContinues(th) ==
    \/ \E p \in Callers :
          th = CallerThread(p) /\ (CallerLen(p) \/ CallerRUnlock(p))
    \/ th = HealthThread
          /\ (GetConnectedClientsLen \/ GetConnectedClientsRUnlock)

\* A request is offered to the hub's select.
Offered_Register(c) == handlerPc[c] = "register"

Offered_Unregister(c) == handlerPc[c] = "unregister" \/ evictors[c] > 0

\* The hub's select takes the request of c.
Accepts(c) ==
    \/ RegisterLock(c)
    \/ UnregisterLock(c)
    \/ EvictorUnregisterLock(c)

OutstandingEvictions ==
    LET Sum[i \in 0..NumConns] ==
            IF i = 0 THEN 0 ELSE Sum[i - 1] + evictors[i]
    IN  Sum[NumConns]

\* C27: a session whose broadcast write failed has at most one eviction
\* request outstanding at any time, so the outstanding eviction requests
\* are never more than the sessions there are.
C27_OneEvictionPerSession ==
    /\ \A c \in Conns : evictors[c] <= 1
    /\ OutstandingEvictions <= Cardinality(Conns)

\* ------------------------------------------------- failed transports
\* The transport of c has failed: a broadcast write to it failed and its
\* eviction request is waiting, or its handler has left on a read error or
\* a failed greeting.
TransportFailed(c) == evictors[c] > 0 \/ handlerPc[c] = "unregister"

\* c is out of the set, its connection closed, its handler returned and no
\* eviction goroutine of it is left.
CleanedUp(c) ==
    /\ c \notin clients
    /\ closeCount[c] > 0
    /\ handlerPc[c] = "done"
    /\ evictors[c] = 0

\* No step of the hub or of a handler changes what the ingestion caller
\* got back from its call.
CallerNotTold ==
    (hubPc' # hubPc \/ handlerPc' # handlerPc \/ evictors' # evictors)
        => UNCHANGED <<callerPc, ingestVars>>

\* C28: while the hub loop keeps taking steps, every session whose
\* transport fails (a failed broadcast write, a read error, a failed
\* greeting) is eventually out of the session set with its connection
\* closed, its handler returned and every eviction goroutine started for it
\* finished; the failure changes nothing for the ingestion caller.
C28_FailedSessionCleanedUp ==
    /\ \A c \in Conns : TransportFailed(c) ~> CleanedUp(c)
    /\ [][CallerNotTold]_vars

\* C28, witness: the greeting of one session failed and it is cleaned up;
\* another was evicted after a failed broadcast write while its handler was
\* still reading.
C28_Witness ==
    \E a, b \in Conns :
        /\ greeted[a] = <<"err">>
        /\ CleanedUp(a)
        /\ handlerPc[b] = "read"
        /\ wire[b] # <<>>
        /\ b \notin clients
        /\ closeCount[b] = 1
        /\ evictors[b] = 0

\* ------------------------------------------------- silent devices
\* Milliseconds since the last reading of a tracked device.
Elapsed(d) == Sub64(UnixMilli, deviceStatus[d].LastSeen)

Online(d) == d \in DOMAIN deviceStatus /\ deviceStatus[d].Status = "online"

Offline(d) == d \in DOMAIN deviceStatus /\ deviceStatus[d].Status = "offline"

\* One pass of the sweep, whatever the period of its ticker.
SweepPass == subscribed /\ nextSweep' # nextSweep

\* A pass that runs more than 60 s after a device's last reading leaves the
\* device offline.
PassMarksSilent ==
    SweepPass =>
        \A d \in DOMAIN deviceStatus :
            Elapsed(d) > StaleWindowMs => Offline(d)'

\* This step accepted a reading of device d.
AcceptedReading(d) ==
    /\ received' = received + 1
    /\ lastOutcome' = "processed"
    /\ DefaultDeviceID(lastPayload'[1].device_id) = d

\* A record is never removed, and an offline device comes online only by
\* an accepted reading of its own.
OfflineUntilReading ==
    \A d \in DOMAIN deviceStatus :
        /\ d \in DOMAIN deviceStatus'
        /\ Offline(d) /\ Online(d)' => AcceptedReading(d)

\* A device still online more than window plus interval after its last
\* reading is waiting for a pass that is due, and that for no longer than
\* the pass may be late.
MarkedByDuePass ==
    \A d \in DOMAIN deviceStatus :
        Online(d) /\ Elapsed(d) > StaleWindowMs + SweepIntervalMs =>
            /\ SweepDue
            /\ Elapsed(d) <= StaleWindowMs + SweepIntervalMs + MaxJitterMs

\* The last tick the clock of the model reaches.
LastTick == MaxTicks * SweepIntervalMs

\* The last reading is old enough for the clock to reach the pass that
\* marks it.
HeardEarly(d) ==
    /\ d \in DOMAIN deviceStatus
    /\ Sub64(deviceStatus[d].LastSeen, ProcessStart)
          + StaleWindowMs + SweepIntervalMs <= LastTick + MaxJitterMs

SweptDevices == {"dev1", "ESP32_PZEM"}

\* Readings can be ingested only once the sweep loop has been started.
SweepRunsWhileIngesting ==
    (received > 0 \/ DOMAIN deviceStatus # {}) => subscribed /\ nextSweep > 0

Attempts ==
    Len(SelectSeq(insOut.calls, LAMBDA c : c.op = "InsertRecord"))

\* The error text names a session or a statement, or says that something
\* doesn't exist.
SessionLevel(msg) ==
    \E i \in 1..Len(msg) :
        \/ msg[i] \in {"session", "statement"}
        \/ i < Len(msg) /\ msg[i] = "doesn't" /\ msg[i + 1] = "exist"

\* C30: InsertData attempts the insert at most twice per call; the second
\* attempt is made exactly when the first failed with a session-level error
\* and the reconnect succeeded; when the reconnect fails, when the retry
\* fails or when the first error is not session-level it returns an error
\* without a further attempt; a disabled store makes no attempt and returns
\* success.
C30_RetryOnce ==
    insOut.done =>
        LET failed      == insIn.first.err # NoError
            session     == failed /\ SessionLevel(insIn.first.err)
            reconnected == insIn.reconnect = NoError
        IN  /\ Attempts <= 2
            /\ Attempts = 2 <=> insIn.enabled /\ session /\ reconnected
            /\ ~insIn.enabled => Attempts = 0 /\ insOut.err = NoError
            /\ insIn.enabled /\ ~failed =>
                  Attempts = 1 /\ insOut.err = NoError
            /\ insIn.enabled /\ failed /\ ~session =>
                  Attempts = 1 /\ insOut.err # NoError
            /\ insIn.enabled /\ session /\ ~reconnected =>
                  Attempts = 1 /\ insOut.err # NoError
            /\ insIn.enabled /\ session /\ reconnected
                  /\ insIn.retry.err # NoError =>
                  Attempts = 2 /\ insOut.err # NoError
            /\ insIn.enabled /\ session /\ reconnected
                  /\ insIn.retry.err = NoError =>
                  insOut.err = NoError

\* C30, witness: a first attempt failed with a session error, the store
\* reconnected, and the second attempt failed too.
C30_Witness ==
    /\ insOut.done
    /\ Attempts = 2
    /\ insOut.calls[3].op = "Connect"
    /\ insOut.err = insIn.retry.err
    /\ insOut.err # NoError

\* ------------------------------------------------- one writer at a time
\* The handler of c is inside its greeting write.
HandlerWrites(c) == handlerPc[c] = "welcoming"

\* The hub loop is inside a broadcast write to c.
HubWrites(c) == hubPc = "write" /\ c \in hubConn

\* C31: at most one thread writes to a session's transport at any time: the
\* hub loop's broadcast write to a session never overlaps the greeting write
\* of that session's handler.
C31_OneWriterPerTransport ==
    \A c \in Conns : ~(HandlerWrites(c) /\ HubWrites(c))

\* ------------------------------------------------- the greeting first
\* This step wrote an event to c, and the write succeeded.
EventWritten(c) ==
    /\ wire'[c] # wire[c]
    /\ passWrites'[c] = Append(passWrites[c], "ok")

\* The greeting write of c's handler has been made.
GreetingWritten(c) == greeted[c] # <<>>

GreetingBeforeEvents ==
    \A c \in Conns : EventWritten(c) => GreetingWritten(c)

\* C32: the connection acknowledgment is the first message written to a
\* session: no reading or alert event is written to a session before that
\* session's greeting has been written.
C32_GreetingFirst == [][GreetingBeforeEvents]_vars

\* ------------------------------------------------- sweep and fresh reading
\* A caller of updateDeviceStatus is between its Lock and its Unlock.
InTouch(t) == touchPc[t] \in {"locked", "built", "stored"}

\* The sweep is between its Lock and its Unlock.
InSweep == sweepPc \in {"locked", "read", "swept"}

\* The sweep's test and write exclude every Touch.
SweepExcludesTouch ==
    /\ InSweep => statusLock = Sweeper /\ \A t \in Touchers : ~InTouch(t)
    /\ \A t \in Touchers : InTouch(t) => statusLock = t

\* now-status.LastSeen as the last sweep that read its clock computed it,
\* 0 before any sweep has.
SweepAge(d) ==
    IF sweepNow = Zero64 THEN 0
    ELSE Sub64(sweepNow, deviceStatus[d].LastSeen)

\* An offline device was last seen more than the staleness window before
\* the clock reading of the sweep that marked it.
MarkedOnlyWhenStale ==
    \A d \in DOMAIN deviceStatus :
        deviceStatus[d].Status = "offline" =>
            SweepAge(d) > StaleWindowMs

\* The sweep is not under way and every Touch has returned.
BothCompleted ==
    /\ sweepPc = "idle"
    /\ \A t \in Touchers : touchPc[t] = "done"

\* C33: a sweep never overrides a fresh reading: its staleness test and its
\* status write happen atomically with respect to Touch, so once a Touch and
\* a sweep have both completed the device is online unless the sweep read
\* its clock more than the staleness window after the reading, and a device
\* is never offline while its last_seen is within the staleness window of
\* the sweep that marked it.
C33_SweepKeepsFreshReading ==
    /\ SweepExcludesTouch
    /\ MarkedOnlyWhenStale
    /\ BothCompleted /\ TouchedDevice \in DOMAIN deviceStatus
          /\ SweepAge(TouchedDevice) <= StaleWindowMs
          => deviceStatus[TouchedDevice].Status = "online"

\* C33, witness: every Touch has returned and a sweep that read its clock
\* exactly one staleness window after the last of them has completed.
C33_Witness ==
    /\ BothCompleted
    /\ TouchedDevice \in DOMAIN deviceStatus
    /\ SweepAge(TouchedDevice) = StaleWindowMs
    /\ deviceStatus[TouchedDevice].Status = "online"

\* ------------------------------------------------- calls without viewers
\* A call made by p while no session is registered does not reach the send,
\* and leaves the queue and the event counter as they were.
CallWithoutViewers(p) ==
    (callerPc[p] \in Resting /\ callerPc'[p] # callerPc[p]
        /\ clients = {}) =>
        /\ callerPc'[p] = "skipped"
        /\ broadcast' = broadcast
        /\ accepted' = accepted

\* Every event that enters the queue is put there by a call that had found
\* a session registered.
EnqueuedByCounted ==
    Len(broadcast') > Len(broadcast) =>
        \E p \in Callers : callerPc[p] \in Selecting /\ callerPc'[p] = "sent"

\* C34: when no session is registered at the moment BroadcastRealtimeData or
\* BroadcastAlert is called, the call enqueues nothing and leaves the
\* broadcast queue unchanged, so events produced while there are no viewers
\* are not buffered for sessions that register later.
C34_NoViewersNothingQueued ==
    /\ [][(\A p \in Callers : CallWithoutViewers(p)) /\ EnqueuedByCounted]_vars
    /\ [](\A p \in Callers :
            callerPc[p] = "skipped" => ~ENABLED CallerSelect(p))

\* C34, witness: a call was skipped for want of viewers, a session has
\* registered since, and the queue holds nothing for it.
C34_Witness ==
    /\ \E p \in Callers : callerPc[p] = "skipped"
    /\ clients # {}
    /\ broadcast = <<>>
    /\ accepted = 0

\* ------------------------------------------------- the alert's threshold
\* The limit an alert of each type reports for the value it carries.
LimitCrossed(a) ==
    IF a.AlertType = "high_power" THEN maxPower
    ELSE IF a.AlertType = "high_current" THEN maxCurrent
    ELSE IF a.ActualValue < minVoltage THEN minVoltage
    ELSE maxVoltage

\* The value is on the far side of the threshold the alert names.
Crossed(a) ==
    IF a.AlertType = "voltage_abnormal" /\ a.Threshold = minVoltage
    THEN a.ActualValue < a.Threshold
    ELSE a.ActualValue > a.Threshold

\* C35: in every alert returned by CheckThresholdAlert the threshold field
\* is the limit that actual_value crossed: 2200 with actual_value > 2200 for
\* high_power, 10 with actual_value > 10 for high_current, and for
\* voltage_abnormal 200 when the voltage is below 200 and 240 when it is
\* above 240.
C35_ThresholdIsLimitCrossed ==
    (evalOut.done /\ evalOut.alert # <<>>) =>
        LET a == evalOut.alert[1]
        IN  a.Threshold = LimitCrossed(a) /\ Crossed(a)

\* ------------------------------------------------- the reconnect counter
\* scheduleReconnect() set a timer in this step.
ReconnectScheduled == clientLog' = clientLog + 1

\* A socket opened in this step.
OpenStep ==
    \/ client.ws = "connecting" /\ client'.ws = "open"
    \/ client'.orphans.open > client.orphans.open

CounterSteps ==
    /\ ReconnectScheduled =>
          /\ client.reconnectAttempts < maxReconnectAttempts
          /\ client'.reconnectAttempts = client.reconnectAttempts + 1
    /\ (client.reconnectAttempts = maxReconnectAttempts /\ ~OpenStep) =>
          /\ client'.timers <= client.timers
          /\ client'.reconnectAttempts = maxReconnectAttempts
    /\ OpenStep => client'.reconnectAttempts = 0

\* C36: the reconnect counter of EnergyWebSocket never exceeds
\* maxReconnectAttempts (5): between two successful opens at most 5 reconnect
\* attempts are scheduled, after the 5th consecutive failure no further
\* attempt is scheduled, and a successful open resets the counter to 0.
C36_ReconnectCounterBounded ==
    /\ [](/\ client.reconnectAttempts \in 0..maxReconnectAttempts
          /\ clientLog <= maxReconnectAttempts
          /\ clientLog = client.reconnectAttempts)
    /\ [][CounterSteps]_vars

\* C36, witness: five reconnects were scheduled, the socket of the fifth
\* has failed, and no timer is pending.
C36_Witness ==
    /\ client.reconnectAttempts = maxReconnectAttempts
    /\ clientLog = maxReconnectAttempts
    /\ client.ws = "closed"
    /\ client.timers = 0
    /\ ~client.isIntentionallyClosed
    /\ LiveSockets(client) = 0

\* ------------------------------------------------- after close()
\* A reconnect timer ran in this step and connect() made a socket.
TimerMadeSocket ==
    /\ client'.timers < client.timers
    /\ client'.ws = "connecting"
    /\ LiveSockets(client') > LiveSockets(client)

\* A socket closed in this step.
CloseEvent == LiveSockets(client') < LiveSockets(client)

NoReconnectAfterClose ==
    client.isIntentionallyClosed =>
        /\ ~TimerMadeSocket
        /\ CloseEvent => client'.timers <= client.timers

\* C37: after close() has been called the EnergyWebSocket client never
\* opens a new connection on its own: no reconnect is scheduled by a later
\* close event, and no reconnect timer that was pending when close() was
\* called creates a new socket.
C37_NoReconnectAfterClose == [][NoReconnectAfterClose]_vars

====
